---- MODULE Spec2Model ----
(***************************************************************************)
(* A model of the peer-to-peer overlay of agentic-memory: the routing      *)
(* table, the envelope dispatch of a PeerNode, event flooding, gossip and  *)
(* the health check, and the memory-API router.                            *)
(*                                                                         *)
(* The module holds several specifications over one set of variables.     *)
(* Each specification drives one group of variables and leaves the other  *)
(* groups at their idle values:                                            *)
(*   SpecTable    one RoutingTable under arbitrary calls                   *)
(*   SpecRouting  the routing state of one PeerNode under the envelopes    *)
(*                its peers send and the passing of time                   *)
(*   SpecDispatch handle_envelope of one PeerNode: deduplication, the      *)
(*                handlers, event forwarding                               *)
(*   SpecRpc      one PeerNode serving request envelopes and routing the   *)
(*                calls of its own memory client                           *)
(*   SpecFlood    five running nodes joined by streams: event flooding     *)
(*   SpecPair     a store+llm node and a cli node that bootstraps to it    *)
(*   SpecHealth   three nodes, one of which crashes: gossip, health checks *)
(***************************************************************************)
EXTENDS Integers, Sequences, FiniteSets, TLC

None == "none"

\* ------------------------------------------------------------------------
\* Bounds of the model
\* ------------------------------------------------------------------------

\* highest heartbeat_seq an incoming PeerState carries
MaxSeq == 1
\* highest last_seen an incoming PeerState carries in SpecTable
MaxSeen == 1
\* number of times the clock of SpecRouting advances
MaxTicks == 2
\* number of distinct msg_ids peers send in SpecDispatch
NumMsgIds == 5
\* how often the tracked envelope is dispatched before its copies stop
MaxCount == 2
\* number of distinct request msg_ids peers send in SpecRpc
NumRpcIds == 2
\* number of events the node originates in SpecRpc
MaxLocal == 2
\* number of envelopes the nodes of a network originate
MaxEnvelopes == 4
\* number of events the nodes of a network emit
MaxEvents == 1
\* number of gossip envelopes in flight at a time
MaxGossipInFlight == 1
\* number of statements the store holds
MaxStatements == 2
\* number of process() calls of the validator
MaxProcess == 2
\* number of times the schema file is written
MaxWrites == 3
\* number of gossip periods the timed overlay runs for
MaxPeriods == 8
\* number of observations the store of the inference agent holds
MaxObs == 2
\* number of ticks of the inference agent that fail
MaxErrors == 2
\* number of memory.infer calls per observation the model follows
MaxInferCalls == 2
\* number of relationships in the graph beyond which callers of the store
\* create no more
MaxEdges == 3
\* number of sends of one broadcast beyond which no stream is connected
\* while it runs
MaxSends == 3
\* number of event listeners registered on a node
MaxListeners == 2
\* number of pings a node of SpecCycle answers beyond the envelopes the
\* nodes originate
MaxPings == 1
\* number of peers of SpecNeighbors not heard of since time 0
MaxStale == 1
\* number of peers of SpecNeighbors without an outbound stream at first
MaxUnconnected == 3
\* number of health-check passes SpecProbe follows
MaxPasses == 4

\* ------------------------------------------------------------------------
\* types.py: capabilities, PeerInfo, PeerState
\* ------------------------------------------------------------------------

Capability == {"store", "llm", "inference", "validation", "cli"}

Status == {"alive", "suspect", "dead"}

\* The node under study and the peers it can hear about.
Self == "n0"
Peers == {"p1", "p2"}

\* PeerInfo.capabilities of each peer id (PeerInfo is immutable identity).
PeerCaps(id) ==
    CASE id = "p1" -> {"store", "llm"}
      [] id = "p2" -> {"llm"}
      [] OTHER -> {"cli"}

\* A PeerState with its PeerInfo flattened into the record.  http_url and
\* ws_url are abstract addresses: "adv" is the address the peer advertises
\* about itself, "ovr" a locally remapped one.
PeerState(id, http, ws, st, seen, seq, meta) ==
    [node_id |-> id, capabilities |-> PeerCaps(id), http_url |-> http,
     ws_url |-> ws, status |-> st, last_seen |-> seen,
     heartbeat_seq |-> seq, metadata |-> meta]

\* ------------------------------------------------------------------------
\* routing.py: METHOD_CAPABILITIES and RoutingTable
\* A RoutingTable._peers dict is a sequence of PeerStates with distinct
\* node_ids, in the dict's insertion order.
\* ------------------------------------------------------------------------

TableMethods ==
    {"observe", "claim", "remember", "infer", "get_recent_observations",
     "get_recent_statements", "get_unresolved_contradictions",
     "get_concepts", "flag_contradiction", "clear"}

\* Methods a caller can name; the last two are not keys of the table.
Methods == TableMethods \cup {"get_schema", "update_schema"}

\* METHOD_CAPABILITIES.get(method, set())
METHOD_CAPABILITIES(method) ==
    CASE method \in {"observe", "claim", "remember"} -> {"store", "llm"}
      [] method = "infer" -> {"llm"}
      [] method \in {"get_recent_observations", "get_recent_statements",
                     "get_unresolved_contradictions", "get_concepts",
                     "flag_contradiction", "clear"} -> {"store"}
      [] OTHER -> {}

\* index of node_id in the table, 0 when absent (self._peers.get)
PeerIndex(peers, id) ==
    IF \E i \in 1..Len(peers) : peers[i].node_id = id
    THEN CHOOSE i \in 1..Len(peers) : peers[i].node_id = id
    ELSE 0

KnownIds(peers) == {peers[i].node_id : i \in 1..Len(peers)}

GetPeer(peers, id) == peers[PeerIndex(peers, id)]

\* A faulty update_peer that accepts any sequence number for a known peer.
update_peer_any_seq(peers, state) ==
    LET i == PeerIndex(peers, state.node_id) IN
    IF i = 0
    THEN [peers |-> Append(peers, state), ret |-> TRUE]
    ELSE [peers |-> [peers EXCEPT ![i] = state], ret |-> TRUE]

\* RoutingTable.update_peer: the table afterwards and the returned bool.
update_peer(peers, state) ==
    LET i == PeerIndex(peers, state.node_id) IN
    IF i = 0
    THEN [peers |-> Append(peers, state), ret |-> TRUE]
    ELSE IF state.heartbeat_seq > peers[i].heartbeat_seq
    THEN [peers |-> [peers EXCEPT ![i] = state], ret |-> TRUE]
    ELSE IF state.last_seen > peers[i].last_seen
    THEN [peers |-> [peers EXCEPT ![i].last_seen = state.last_seen,
                                  ![i].status = "alive"],
          ret |-> FALSE]
    ELSE [peers |-> peers, ret |-> FALSE]

\* a faulty removal that leaves the table as it is
KeepPeers(peers, id) == peers

\* RoutingTable.remove_peer
remove_peer(peers, id) ==
    SelectSeq(peers, LAMBDA ps : ps.node_id # id)

\* RoutingTable.get_alive_peers, in table order
get_alive_peers(peers, exclude) ==
    SelectSeq(peers, LAMBDA ps : ps.status = "alive" /\ ps.node_id # exclude)

\* A faulty candidate filter that forgets the status test.
RouteCandidatesAnyStatus(peers, method, exclude) ==
    {i \in 1..Len(peers) :
        /\ peers[i].node_id # exclude
        /\ METHOD_CAPABILITIES(method) \subseteq peers[i].capabilities}

\* the candidates list of route_method, as indices into the table
RouteCandidates(peers, method, exclude) ==
    {i \in 1..Len(peers) :
        /\ peers[i].status = "alive"
        /\ peers[i].node_id # exclude
        /\ METHOD_CAPABILITIES(method) \subseteq peers[i].capabilities}

\* RoutingTable.route_method: the node_ids random.choice can return, or
\* {None} when there is no candidate.
route_method(peers, method, exclude) ==
    LET c == RouteCandidates(peers, method, exclude) IN
    IF c = {} THEN {None} ELSE {peers[i].node_id : i \in c}

\* ------------------------------------------------------------------------
\* Variables
\* ------------------------------------------------------------------------

VARIABLES
    t_peers,        \* SpecTable: RoutingTable._peers
    t_last,         \* SpecTable: the last call, its arguments and its result
    routing,        \* PeerNode.routing._peers of node Self
    url_overrides,  \* PeerNode._url_overrides: node_id -> <<http_url, ws_url>>
    outbound_ws,    \* keys of TransportClient._outbound_ws
    started,        \* start() has returned and the background loops run
    now,            \* time.time()
    max_seq_seen,   \* history: highest heartbeat_seq received per node_id
    inbound_ws,     \* TransportServer._inbound_ws: key -> peer at the other end
    seen_msgs,      \* PeerNode._seen_msgs, oldest first
    last,           \* the last envelope handled and what became of it
    reply,          \* the envelope handle_envelope returned
    outbox,         \* the envelopes the last step sent
    dispatches,     \* history: handler runs for the envelope Tracked
    evictions,      \* history: evictions of Tracked from seen_msgs
    capabilities,   \* PeerNode.capabilities
    memory_registered,  \* "memory" in PeerNode._local_services
    next_local,     \* number of event envelopes the node has originated
    net_routing,    \* per node: PeerNode.routing
    net_outbound_ws,    \* per node: TransportClient._outbound_ws (its keys)
    net_inbound_ws, \* per node: TransportServer._inbound_ws
    net_seen_msgs,  \* per node: PeerNode._seen_msgs
    net_heard,      \* per node: msg_ids its event listeners were called with
    net_running,    \* the nodes that are up
    net_now,        \* time.time()
    net_wire,       \* envelopes sent over a stream and not yet received
    net_next_id,    \* number of envelopes originated so far
    net_emitted,    \* history: the events _broadcast_event has emitted
    net_crashed_at, \* history: when the crashing node went down, or -1
    net_checked,    \* history: nodes whose health check ran after the
                    \* crashed node had been silent for DEAD_TIMEOUT
    net_last,       \* history: the latest call of a memory client
    net_done,       \* SpecGossip: loop passes that have run in this period
    net_converged,  \* history: every table has held every other node
    v_statements,   \* the Statement nodes of the store, oldest first
    v_superseded,   \* ids of statements with an incoming SUPERSEDES edge
    v_schema,       \* ValidatorAgent._schema
    v_has_state,    \* ValidatorAgent.state is not None
    v_checked,      \* LocalAgentState._sets["agent:validator:checked_pairs"]
    v_event_received,   \* the wake-up flag of the agent's listener
    v_flags,        \* history: the flag_contradiction calls, in order
    v_ticks,        \* number of process() calls so far
    v_last,         \* history: the last operation on the validator
    s_data,         \* SchemaStore._data
    s_schema,       \* SchemaStore._schema
    s_loaded,       \* load() has returned in the running process
    s_file,         \* the schema file on disk
    s_persisted,    \* history: the schemas handed to _persist
    s_last,         \* history: the last operation on the schema store
    a_pc,           \* where WorkerAgent.run() of the inference agent stands
    a_running,      \* WorkerAgent._running
    a_attempts,     \* history: _tick calls of the startup loop of run()
    a_startup_raised,   \* history: process() raised in the latest of them
    a_error_count,  \* WorkerAgent._error_count
    a_event_received,   \* the wake-up flag of the agent's listener
    a_pending,      \* history: an event of a declared type has arrived
                    \* and no process() call has started since
    a_obs,          \* the Observation nodes of the store, oldest first
    a_fetched,      \* process(): the observations it has fetched
    a_processed,    \* LocalAgentState._sets["agent:inference:processed_obs"]
    a_infer_calls,  \* history: memory.infer calls per observation
    a_claimed,      \* history: observations whose claim memory.claim took
    a_last,         \* history: the last _tick call of the agent
    g_concepts,     \* the ids of the Concept nodes of the graph
    g_observations, \* the ids of its Observation nodes
    g_statements,   \* the ids of its Statement nodes
    g_edges,        \* its relationships: <<from, type, to>>
    x_kind,         \* SpecStreams: "out" for TransportClient._outbound_ws,
                    \* "in" for TransportServer._inbound_ws
    x_ws,           \* the keys of that table, in insertion order
    x_closed,       \* keys whose stream is no longer in state CONNECTED
    x_pc,           \* where the sending task stands
    x_peer,         \* the key whose send that task is suspended in
    x_todo,         \* broadcast: keys its dict iterator has yet to yield
    x_used,         \* broadcast: len of the table when the iterator began
    x_dead,         \* broadcast: its list dead
    x_count,        \* broadcast: its count
    x_last,         \* history: the last send call that has ended
    ev_listeners,   \* SpecEvent: PeerNode._event_listeners, each by whether
                    \* its call raises
    h_last,         \* SpecNeighbors: history: what the last health-check
                    \* pass pruned, kept, could have tried and tried
    hp,             \* SpecProbe: the locals of the health-check task and
                    \* the await it is suspended in
    hp_removed,     \* history: the peers that task removed, each with its
                    \* last_seen and the time at the removal
    ev_last         \* history: the listeners the last _handle_event found
                    \* and those it called, in order

tableVars == <<t_peers, t_last>>

routingVars ==
    <<routing, url_overrides, outbound_ws, started, now, max_seq_seen,
      capabilities>>

dispatchVars ==
    <<inbound_ws, seen_msgs, last, reply, outbox, dispatches, evictions,
      memory_registered, next_local>>

netVars ==
    <<net_routing, net_outbound_ws, net_inbound_ws, net_seen_msgs, net_heard,
      net_running, net_now, net_wire, net_next_id, net_emitted,
      net_crashed_at, net_checked, net_last>>

timedVars == <<net_done, net_converged>>

validatorVars ==
    <<v_statements, v_superseded, v_schema, v_has_state, v_checked,
      v_event_received, v_flags, v_ticks, v_last>>

schemaVars == <<s_data, s_schema, s_loaded, s_file, s_persisted, s_last>>

workerVars ==
    <<a_pc, a_running, a_attempts, a_startup_raised, a_error_count,
      a_event_received, a_pending, a_obs, a_fetched, a_processed,
      a_infer_calls, a_claimed, a_last>>

storeVars == <<g_concepts, g_observations, g_statements, g_edges>>

streamVars ==
    <<x_kind, x_ws, x_closed, x_pc, x_peer, x_todo, x_used, x_dead, x_count,
      x_last>>

listenerVars == <<ev_listeners, ev_last>>

neighborVars == <<h_last, hp, hp_removed>>

lateVars ==
    <<workerVars, storeVars, streamVars, listenerVars, neighborVars>>

agentVars == <<validatorVars, schemaVars, lateVars>>

vars == <<t_peers, t_last, routing, url_overrides, outbound_ws, started, now,
          max_seq_seen, inbound_ws, seen_msgs, last, reply, outbox,
          dispatches, evictions, capabilities, memory_registered, next_local,
          net_routing, net_outbound_ws, net_inbound_ws, net_seen_msgs,
          net_heard, net_running, net_now, net_wire, net_next_id,
          net_emitted, net_crashed_at, net_checked, net_last, net_done,
          net_converged, v_statements, v_superseded, v_schema, v_has_state,
          v_checked, v_event_received, v_flags, v_ticks, v_last, s_data,
          s_schema, s_loaded, s_file, s_persisted, s_last, a_pc, a_running,
          a_attempts, a_startup_raised, a_error_count, a_event_received,
          a_pending, a_obs, a_fetched, a_processed, a_infer_calls,
          a_claimed, a_last, g_concepts, g_observations, g_statements,
          g_edges, x_kind, x_ws, x_closed, x_pc, x_peer, x_todo, x_used,
          x_dead, x_count, x_last, ev_listeners, ev_last, h_last, hp,
          hp_removed>>

\* what the actions of each specification leave alone
notTable == <<routingVars, dispatchVars, netVars, timedVars, agentVars>>
notRouting == <<tableVars, dispatchVars, netVars, timedVars, agentVars>>
notNode == <<tableVars, netVars, timedVars, agentVars>>
notNet == <<tableVars, routingVars, dispatchVars, timedVars, agentVars>>
notTimed == <<tableVars, routingVars, dispatchVars, agentVars>>
notValidator ==
    <<tableVars, routingVars, dispatchVars, netVars, timedVars, schemaVars,
      lateVars>>
notSchema ==
    <<tableVars, routingVars, dispatchVars, netVars, timedVars,
      validatorVars, lateVars>>
earlyVars ==
    <<tableVars, routingVars, dispatchVars, netVars, timedVars,
      validatorVars, schemaVars>>
notWorker ==
    <<earlyVars, storeVars, streamVars, listenerVars, neighborVars>>
notStore ==
    <<earlyVars, workerVars, streamVars, listenerVars, neighborVars>>
notStreams ==
    <<earlyVars, workerVars, storeVars, listenerVars, neighborVars>>
notEvent ==
    <<tableVars, netVars, timedVars, validatorVars, schemaVars, workerVars,
      storeVars, streamVars, neighborVars>>
notNeighbors ==
    <<tableVars, dispatchVars, netVars, timedVars, validatorVars,
      schemaVars, workerVars, storeVars, streamVars, listenerVars, hp,
      hp_removed>>
notProbe ==
    <<tableVars, dispatchVars, netVars, timedVars, validatorVars,
      schemaVars, workerVars, storeVars, streamVars, listenerVars, h_last>>

\* ------------------------------------------------------------------------
\* node.py, gossip.py: the handlers of one PeerNode as they act on its
\* routing state
\* ------------------------------------------------------------------------

MAX_NEIGHBORS == 8
HEALTH_CHECK_INTERVAL == 10
SUSPECT_TIMEOUT == 15
DEAD_TIMEOUT == 30

\* The clock advances in steps of two health-check periods, so that an
\* entry can be seen fresh, past SUSPECT_TIMEOUT and past DEAD_TIMEOUT.
TickStep == 2 * HEALTH_CHECK_INTERVAL

NoOverrides == [p \in Peers |-> None]

\* PeerNode.apply_url_overrides: an override for the peer's id replaces both
\* URLs of the state.
apply_url_overrides(overrides, ps) ==
    IF ps.node_id \in DOMAIN overrides /\ overrides[ps.node_id] # None
    THEN [ps EXCEPT !.http_url = overrides[ps.node_id][1],
                    !.ws_url = overrides[ps.node_id][2]]
    ELSE ps

\* the table after update_peer was called with each state of a list in turn
RECURSIVE UpdateAll(_, _)
UpdateAll(peers, states) ==
    IF states = <<>> THEN peers
    ELSE UpdateAll(update_peer(peers, Head(states)).peers, Tail(states))

\* history of the sequence numbers received, after a list of states was
\* handed to update_peer
RECURSIVE SeqsReceived(_, _)
SeqsReceived(maxseq, states) ==
    IF states = <<>> THEN maxseq
    ELSE LET ps == Head(states)
             m == IF ps.heartbeat_seq > maxseq[ps.node_id]
                  THEN [maxseq EXCEPT ![ps.node_id] = ps.heartbeat_seq]
                  ELSE maxseq
         IN  SeqsReceived(m, Tail(states))

\* a faulty handle_gossip that also takes the state of the node itself
GossipStatesWithSelf(self, overrides, payload, t) ==
    [i \in 1..Len(payload) |->
        apply_url_overrides(overrides, [payload[i] EXCEPT !.last_seen = t])]

\* handle_gossip: the states of the payload that reach update_peer, with
\* last_seen set to the receive time and the URL overrides applied
GossipStates(self, overrides, payload, t) ==
    LET kept == SelectSeq(payload, LAMBDA ps : ps.node_id # self)
    IN  [i \in 1..Len(kept) |->
            apply_url_overrides(overrides, [kept[i] EXCEPT !.last_seen = t])]

\* GossipProtocol.handle_gossip
handle_gossip(peers, self, overrides, payload, t) ==
    UpdateAll(peers, GossipStates(self, overrides, payload, t))

\* the new_state _handle_join builds from the joiner's peer_info
JoinState(id, t) == PeerState(id, "adv", "adv", "alive", t, 0, "m0")

\* _connect_to_neighbors: the alive peers sorted by the number of
\* capabilities the node lacks, most first (list.sort is stable)
RECURSIVE SortedByComplement(_, _, _)
SortedByComplement(alive, caps, k) ==
    LET here == SelectSeq(alive,
                    LAMBDA ps : Cardinality(ps.capabilities \ caps) = k)
    IN  IF k = 0 THEN here
        ELSE here \o SortedByComplement(alive, caps, k - 1)

\* _connect_to_neighbors: the node_ids ws_connect is called for
ConnectTargets(peers, self, caps, connected) ==
    LET needed == MAX_NEIGHBORS - Cardinality(connected)
        sorted == SortedByComplement(get_alive_peers(peers, self), caps,
                                     Cardinality(Capability))
        first == SubSeq(sorted, 1,
                        IF needed < Len(sorted) THEN needed ELSE Len(sorted))
    IN  IF needed <= 0 THEN {}
        ELSE {first[i].node_id : i \in 1..Len(first)} \ connected

\* the HTTP probe of the health check: it POSTs to /p2p/health, which the
\* transport server registers for GET only, so a peer running this program
\* answers 405 and http_post returns None.
ProbeSucceeds(ps) == FALSE

\* _health_check_loop, the first loop of one pass over get_all_peers():
\* the table with the statuses set
RECURSIVE HealthMarked(_, _, _)
HealthMarked(peers, i, t) ==
    IF i > Len(peers) THEN peers
    ELSE LET ps == peers[i]
             elapsed == t - ps.last_seen
             marked ==
                IF elapsed > DEAD_TIMEOUT
                THEN [ps EXCEPT !.status = "dead"]
                ELSE IF elapsed > SUSPECT_TIMEOUT /\ ps.status # "suspect"
                THEN IF ProbeSucceeds(ps)
                     THEN [ps EXCEPT !.status = "alive", !.last_seen = t]
                     ELSE [ps EXCEPT !.status = "suspect"]
                ELSE ps
         IN  HealthMarked([peers EXCEPT ![i] = marked], i + 1, t)

\* _health_check_loop: the to_remove list of one pass
ToRemove(peers, t) ==
    {peers[i].node_id : i \in {j \in 1..Len(peers) :
                                  t - peers[j].last_seen > DEAD_TIMEOUT}}

\* _health_check_loop: the table after the pass removed the dead peers
HealthChecked(peers, t) ==
    SelectSeq(HealthMarked(peers, 1, t),
              LAMBDA ps : ps.node_id \notin ToRemove(peers, t))

InitRouting ==
    /\ routing = <<>>
    /\ url_overrides = NoOverrides
    /\ outbound_ws = {}
    /\ started = FALSE
    /\ now = 0
    /\ max_seq_seen = [p \in Peers |-> -1]
    /\ capabilities = {"cli"}

IdleRouting == InitRouting

\* A bootstrap URL that differs from the address the peer advertises is
\* remembered as the override for that peer.
SeedUrlOverride(p) ==
    /\ ~started
    /\ url_overrides[p] = None
    /\ url_overrides' = [url_overrides EXCEPT ![p] = <<"ovr", "ovr">>]
    /\ UNCHANGED <<routing, outbound_ws, started, now, max_seq_seen, capabilities>>
    /\ UNCHANGED notRouting

\* start(), one bootstrap peer: _join_peer returned the peers of a welcome
\* and each is handed to update_peer.
Bootstrap(welcome) ==
    /\ ~started
    /\ routing' = UpdateAll(routing, welcome)
    /\ max_seq_seen' = SeqsReceived(max_seq_seen, welcome)
    /\ UNCHANGED <<url_overrides, outbound_ws, started, now, capabilities>>
    /\ UNCHANGED notRouting

\* _connect_to_neighbors: ws_connect succeeds for some of the targets
ConnectToNeighbors(peers) ==
    \E ok \in SUBSET ConnectTargets(peers, Self, capabilities, outbound_ws) :
        outbound_ws' = outbound_ws \cup ok

\* start(), after the bootstrap loop: connect to neighbours and start the
\* background loops
FinishStart ==
    /\ ~started
    /\ ConnectToNeighbors(routing)
    /\ started' = TRUE
    /\ UNCHANGED <<routing, url_overrides, now, max_seq_seen, capabilities>>
    /\ UNCHANGED notRouting

\* _handle_join for a first-seen join envelope of peer p
HandleJoin(p) ==
    /\ routing' = update_peer(routing, JoinState(p, now)).peers
    /\ max_seq_seen' = SeqsReceived(max_seq_seen, <<JoinState(p, now)>>)
    /\ UNCHANGED <<url_overrides, outbound_ws, started, now, capabilities>>
    /\ UNCHANGED notRouting

\* _handle_gossip for a first-seen gossip envelope
HandleGossip(payload) ==
    /\ routing' = handle_gossip(routing, Self, url_overrides, payload, now)
    /\ max_seq_seen' =
          SeqsReceived(max_seq_seen,
                       GossipStates(Self, url_overrides, payload, now))
    /\ UNCHANGED <<url_overrides, outbound_ws, started, now, capabilities>>
    /\ UNCHANGED notRouting

\* _handle_leave for a first-seen leave envelope of sender p
HandleLeave(p) ==
    /\ routing' = remove_peer(routing, p)
    /\ outbound_ws' = outbound_ws \ {p}
    /\ UNCHANGED <<url_overrides, started, now, max_seq_seen, capabilities>>
    /\ UNCHANGED notRouting

\* one pass of _health_check_loop, when no other task runs during its
\* awaits: mark, remove and close the dead, reconnect
HealthPass ==
    /\ started
    /\ routing' = HealthChecked(routing, now)
    /\ \E ok \in SUBSET ConnectTargets(routing', Self, capabilities,
                                       outbound_ws \ ToRemove(routing, now)) :
          outbound_ws' = (outbound_ws \ ToRemove(routing, now)) \cup ok
    /\ UNCHANGED <<url_overrides, started, now, max_seq_seen, capabilities>>

HealthCheck ==
    /\ HealthPass
    /\ UNCHANGED notRouting

\* an outbound stream closes (_ws_read_loop ends, or a send fails)
StreamClosed(p) ==
    /\ p \in outbound_ws
    /\ outbound_ws' = outbound_ws \ {p}
    /\ UNCHANGED <<routing, url_overrides, started, now, max_seq_seen, capabilities>>
    /\ UNCHANGED notRouting

Tick ==
    /\ now < MaxTicks * TickStep
    /\ now' = now + TickStep
    /\ UNCHANGED <<routing, url_overrides, outbound_ws, started,
                   max_seq_seen, capabilities>>
    /\ UNCHANGED notRouting

\* What peers send.  A peer's own state is alive and carries the address it
\* advertises; what it relays about a third peer has any status.
OwnState(p, seq, t) == PeerState(p, "adv", "adv", "alive", t, seq, "m0")

RelayedStates(sender, t) ==
    {PeerState(o, "adv", "adv", st, t, seq, "m0") :
        o \in (Peers \cup {Self}) \ {sender}, st \in {"alive", "suspect"},
        seq \in 0..MaxSeq}

\* peer_states of a gossip envelope: the sender's own state, then at most
\* one state from its table
GossipPayloads ==
    UNION {{<<OwnState(s, q, 0)>>} \cup
           {<<OwnState(s, q, 0), r>> : r \in RelayedStates(s, 0)} :
           s \in Peers, q \in 0..MaxSeq}

\* peers of a welcome: the seed's own state, then at most one state from
\* its table, never the joiner's
WelcomePayloads(t) ==
    UNION {{<<OwnState(s, q, t)>>} \cup
           {<<OwnState(s, q, t), r>> :
               r \in {x \in RelayedStates(s, 0) : x.node_id # Self}} :
           s \in Peers, q \in 0..MaxSeq}

NextRouting ==
    \/ \E p \in {"p1"} : SeedUrlOverride(p)
    \/ \E w \in WelcomePayloads(now) : Bootstrap(w)
    \/ FinishStart
    \/ \E p \in Peers : HandleJoin(p)
    \/ \E g \in GossipPayloads : HandleGossip(g)
    \/ \E p \in Peers : HandleLeave(p)
    \/ HealthCheck
    \/ \E p \in Peers : StreamClosed(p)
    \/ Tick


\* ------------------------------------------------------------------------
\* node.py, transport.py: handle_envelope and its handlers
\* ------------------------------------------------------------------------

\* SEEN_MSG_MAX is 10_000 in node.py; the model keeps the eviction rule and
\* scales the capacity down so that an overflow is reached.
SEEN_MSG_MAX == 4

\* the msg_ids of the envelopes peers send in SpecDispatch
MsgIds == 1..NumMsgIds

\* the msg_id whose copies the history variables follow: the lowest
Tracked == CHOOSE i \in MsgIds : \A j \in MsgIds : i <= j

Range(f) == {f[i] : i \in DOMAIN f}

\* An Envelope; peer_states is the payload of a gossip, method that of a
\* request, event_type that of an event.
Envelope(type, id, sender, ttl, states, method, etype) ==
    [msg_type |-> type, msg_id |-> id, sender_id |-> sender, ttl |-> ttl,
     peer_states |-> states, method |-> method, event_type |-> etype]

NoReply == [msg_type |-> None, error |-> FALSE, peers |-> <<>>]

\* what one send puts on the wire: the envelope, the neighbour it goes to
\* and the table the stream was taken from
Sent(to, via, e) == [to |-> to, via |-> via, envelope |-> e]

\* a faulty deduplication test that never recognises a duplicate
SeenNever(seen, id) == FALSE

\* handle_envelope: envelope.msg_id in self._seen_msgs
Seen(seen, id) == id \in Range(seen)

\* a faulty eviction that drops the newest ids instead of the oldest
RememberEvictNewest(seen, id) ==
    LET added == Append(seen, id)
    IN  IF Len(added) > SEEN_MSG_MAX
        THEN SubSeq(added, 1, Len(added) - SEEN_MSG_MAX \div 2)
        ELSE added

\* handle_envelope: insert the id and, past SEEN_MSG_MAX ids, pop the
\* oldest SEEN_MSG_MAX // 2
Remember(seen, id) ==
    LET added == Append(seen, id)
    IN  IF Len(added) > SEEN_MSG_MAX
        THEN SubSeq(added, SEEN_MSG_MAX \div 2 + 1, Len(added))
        ELSE added

\* the channel an envelope arrives on: the HTTP endpoint, the inbound
\* stream of a peer, or the outbound stream to a peer
Http == [kind |-> "http", peer |-> None]
InStream(q) == [kind |-> "in", peer |-> q]
OutStream(q) == [kind |-> "out", peer |-> q]

\* TransportServer._handle_ws: an envelope read from the inbound stream of
\* neighbour q files that stream under the envelope's sender_id
Registered(inbound, chan, e) ==
    IF chan.kind = "in"
    THEN [k \in DOMAIN inbound \cup {e.sender_id} |->
            IF k = e.sender_id THEN chan.peer ELSE inbound[k]]
    ELSE inbound

\* a stream the envelope can arrive on exists
Arrives(chan) == chan.kind = "out" => chan.peer \in outbound_ws

\* broadcast_ws then broadcast_inbound: one copy per outbound stream and
\* per inbound key whose send succeeds
BroadcastSent(out, inbound, failOut, failIn, e) ==
    {Sent(q, "outbound", e) : q \in out \ failOut}
    \cup {Sent(inbound[k], "inbound", e) : k \in DOMAIN inbound \ failIn}

WithoutKeys(inbound, keys) == [k \in DOMAIN inbound \ keys |-> inbound[k]]

Handled(e, h) ==
    [msg_id |-> e.msg_id, msg_type |-> e.msg_type, ttl |-> e.ttl,
     method |-> e.method, handled |-> h, outcome |-> None, flood_id |-> 0]

CountTracked(e) ==
    dispatches' = IF e.msg_id = Tracked THEN dispatches + 1 ELSE dispatches

CountEvicted(e) ==
    evictions' =
        IF Seen(seen_msgs, Tracked) /\ ~Seen(Remember(seen_msgs, e.msg_id), Tracked)
        THEN evictions + 1 ELSE evictions

\* handle_envelope up to the handler lookup, for a first-seen envelope
Accept(e, chan) ==
    /\ Arrives(chan)
    /\ ~Seen(seen_msgs, e.msg_id)
    /\ e.msg_id = Tracked => dispatches < MaxCount
    /\ seen_msgs' = Remember(seen_msgs, e.msg_id)
    /\ CountEvicted(e)

\* handle_envelope: a duplicate is dropped
DropDuplicate(e, chan) ==
    /\ Arrives(chan)
    /\ Seen(seen_msgs, e.msg_id)
    /\ inbound_ws' = Registered(inbound_ws, chan, e)
    /\ last' = Handled(e, FALSE)
    /\ reply' = NoReply
    /\ outbox' = {}
    /\ UNCHANGED <<seen_msgs, dispatches, evictions>>
    /\ UNCHANGED routingVars
    /\ UNCHANGED <<memory_registered, next_local>>
    /\ UNCHANGED notNode

\* _handle_join: the joiner is inserted and the welcome lists the node's
\* own state and its table without the joiner
RcvJoin(e, chan) ==
    /\ e.msg_type = "join"
    /\ Accept(e, chan)
    /\ CountTracked(e)
    /\ routing' = update_peer(routing, JoinState(e.sender_id, now)).peers
    /\ max_seq_seen' =
          SeqsReceived(max_seq_seen, <<JoinState(e.sender_id, now)>>)
    /\ inbound_ws' = Registered(inbound_ws, chan, e)
    /\ last' = Handled(e, TRUE)
    /\ reply' =
          [msg_type |-> "welcome", error |-> FALSE,
           peers |-> SelectSeq(
               <<Self>> \o [i \in 1..Len(routing') |-> routing'[i].node_id],
               LAMBDA id : id # e.sender_id)]
    /\ outbox' = {}
    /\ UNCHANGED <<url_overrides, outbound_ws, started, now, capabilities>>
    /\ UNCHANGED <<memory_registered, next_local>>
    /\ UNCHANGED notNode

\* _handle_gossip
RcvGossip(e, chan) ==
    /\ e.msg_type = "gossip"
    /\ Accept(e, chan)
    /\ CountTracked(e)
    /\ routing' =
          handle_gossip(routing, Self, url_overrides, e.peer_states, now)
    /\ max_seq_seen' =
          SeqsReceived(max_seq_seen,
                       GossipStates(Self, url_overrides, e.peer_states, now))
    /\ inbound_ws' = Registered(inbound_ws, chan, e)
    /\ last' = Handled(e, TRUE)
    /\ reply' = NoReply
    /\ outbox' = {}
    /\ UNCHANGED <<url_overrides, outbound_ws, started, now, capabilities>>
    /\ UNCHANGED <<memory_registered, next_local>>
    /\ UNCHANGED notNode

\* _handle_ping
RcvPing(e, chan) ==
    /\ e.msg_type = "ping"
    /\ Accept(e, chan)
    /\ CountTracked(e)
    /\ inbound_ws' = Registered(inbound_ws, chan, e)
    /\ last' = Handled(e, TRUE)
    /\ reply' = [msg_type |-> "pong", error |-> FALSE, peers |-> <<>>]
    /\ outbox' = {}
    /\ UNCHANGED routingVars
    /\ UNCHANGED <<memory_registered, next_local>>
    /\ UNCHANGED notNode

\* _handle_leave
RcvLeave(e, chan) ==
    /\ e.msg_type = "leave"
    /\ Accept(e, chan)
    /\ CountTracked(e)
    /\ routing' = remove_peer(routing, e.sender_id)
    /\ outbound_ws' = outbound_ws \ {e.sender_id}
    /\ inbound_ws' = Registered(inbound_ws, chan, e)
    /\ last' = Handled(e, TRUE)
    /\ reply' = NoReply
    /\ outbox' = {}
    /\ UNCHANGED <<url_overrides, started, now, max_seq_seen, capabilities>>
    /\ UNCHANGED <<memory_registered, next_local>>
    /\ UNCHANGED notNode

\* a faulty test that lets every copy be forwarded
TtlAllowsAlways(e) == TRUE

\* _handle_event: re-broadcast if TTL allows
TtlAllows(e) == e.ttl > 1

\* a faulty forwarder that sends the copy on with the ttl it came with
ForwardedSameTtl(e) == e

\* the copy _handle_event re-emits
Forwarded(e) == [e EXCEPT !.ttl = e.ttl - 1]

\* _handle_event: the listeners are notified; with ttl > 1 a copy goes to
\* every outbound and inbound neighbour, and a stream whose send fails is
\* dropped from its table
HandleEvent(e, chan) ==
    /\ e.msg_type = "event"
    /\ Accept(e, chan)
    /\ CountTracked(e)
    /\ last' = Handled(e, TRUE)
    /\ reply' = NoReply
    /\ IF TtlAllows(e)
       THEN \E failOut \in SUBSET outbound_ws,
               failIn \in SUBSET DOMAIN Registered(inbound_ws, chan, e) :
               /\ outbox' = BroadcastSent(outbound_ws,
                                          Registered(inbound_ws, chan, e),
                                          failOut, failIn, Forwarded(e))
               /\ outbound_ws' = outbound_ws \ failOut
               /\ inbound_ws' =
                     WithoutKeys(Registered(inbound_ws, chan, e), failIn)
       ELSE /\ outbox' = {}
            /\ outbound_ws' = outbound_ws
            /\ inbound_ws' = Registered(inbound_ws, chan, e)
    /\ UNCHANGED <<routing, url_overrides, started, now, max_seq_seen, capabilities>>
    /\ UNCHANGED <<memory_registered, next_local>>

\* handle_envelope for a first-seen event, the listeners left aside
RcvEvent(e, chan) ==
    /\ HandleEvent(e, chan)
    /\ UNCHANGED notNode

\* handle_envelope: no handler for the msg_type
RcvUnknown(e, chan) ==
    /\ e.msg_type \notin {"join", "gossip", "ping", "request", "event",
                          "leave"}
    /\ Accept(e, chan)
    /\ dispatches' = dispatches
    /\ inbound_ws' = Registered(inbound_ws, chan, e)
    /\ last' = Handled(e, FALSE)
    /\ reply' = NoReply
    /\ outbox' = {}
    /\ UNCHANGED routingVars
    /\ UNCHANGED <<memory_registered, next_local>>
    /\ UNCHANGED notNode

\* TransportServer._handle_ws: an exception of handle_envelope ends the
\* reader of the inbound stream, whose key is popped; the reader of an
\* outbound stream and the HTTP endpoint hold no table entry to drop
Unregistered(inbound, chan, e) ==
    IF chan.kind = "in"
    THEN WithoutKeys(Registered(inbound, chan, e), {e.sender_id})
    ELSE inbound

\* what handle_envelope leaves in last when its handler raised
Raised(e) == [Handled(e, TRUE) EXCEPT !.outcome = "exception"]

\* _handle_join of an envelope whose payload has no peer_info, or one
\* PeerInfo.from_dict cannot read: the KeyError leaves handle_envelope
RcvJoinUnparsed(e, chan) ==
    /\ e.msg_type = "join"
    /\ Accept(e, chan)
    /\ CountTracked(e)
    /\ inbound_ws' = Unregistered(inbound_ws, chan, e)
    /\ last' = Raised(e)
    /\ reply' = NoReply
    /\ outbox' = {}
    /\ UNCHANGED routingVars
    /\ UNCHANGED <<memory_registered, next_local>>
    /\ UNCHANGED notNode

\* _handle_gossip of an envelope whose k-th peer state PeerState.from_dict
\* cannot read: the states before it are applied, then the exception
\* leaves handle_envelope
RcvGossipUnparsed(e, chan, k) ==
    /\ e.msg_type = "gossip"
    /\ k \in 1..Len(e.peer_states)
    /\ Accept(e, chan)
    /\ CountTracked(e)
    /\ routing' =
          handle_gossip(routing, Self, url_overrides,
                        SubSeq(e.peer_states, 1, k - 1), now)
    /\ max_seq_seen' =
          SeqsReceived(max_seq_seen,
                       GossipStates(Self, url_overrides,
                                    SubSeq(e.peer_states, 1, k - 1), now))
    /\ inbound_ws' = Unregistered(inbound_ws, chan, e)
    /\ last' = Raised(e)
    /\ reply' = NoReply
    /\ outbox' = {}
    /\ UNCHANGED <<url_overrides, outbound_ws, started, now, capabilities>>
    /\ UNCHANGED <<memory_registered, next_local>>
    /\ UNCHANGED notNode

NoEnvelope == Envelope(None, 0, None, 0, <<>>, None, None)

InitDispatch ==
    /\ routing = <<>>
    /\ url_overrides = NoOverrides
    /\ outbound_ws \in {{}, {"p1"}}
    /\ started = TRUE
    /\ now = 0
    /\ max_seq_seen = [p \in Peers |-> -1]
    /\ inbound_ws = << >>
    /\ seen_msgs = <<>>
    /\ last = Handled(NoEnvelope, FALSE)
    /\ reply = NoReply
    /\ outbox = {}
    /\ dispatches = 0
    /\ evictions = 0
    /\ capabilities = {"cli"}
    /\ memory_registered = FALSE
    /\ next_local = 0

IdleDispatch ==
    /\ inbound_ws = << >>
    /\ seen_msgs = <<>>
    /\ last = Handled(NoEnvelope, FALSE)
    /\ reply = NoReply
    /\ outbox = {}
    /\ dispatches = 0
    /\ evictions = 0
    /\ memory_registered = FALSE
    /\ next_local = 0

\* The envelopes peers send in SpecDispatch.  Every msg_id names one
\* envelope; the copies of an event differ in the ttl left.
DispatchEnvelopes ==
    {Envelope("event", Tracked, "p1", ttl, <<>>, None, "observe") :
        ttl \in 1..3}
    \cup {Envelope("gossip", 2, "p2", 3, <<OwnState("p2", 0, 0)>>, None,
                   None),
          Envelope("join", 3, "p1", 3, <<>>, None, None),
          Envelope("leave", 4, "p1", 3, <<>>, None, None),
          Envelope("ping", 5, "p2", 3, <<>>, None, None),
          Envelope("welcome", 5, "p2", 3, <<>>, None, None)}
    \cup {Envelope("event", id, "p2", 1, <<>>, None, "claim") :
            id \in 6..NumMsgIds}

\* the channels envelopes arrive on: events, gossip and leave travel over
\* streams, the rest is posted to /p2p/message
Channels(e) ==
    IF e.msg_type \in {"event", "gossip", "leave"}
    THEN {InStream(e.sender_id), InStream("p2"), OutStream("p1")}
         \cup (IF e.msg_id = Tracked THEN {Http} ELSE {})
    ELSE {Http}

NextDispatch ==
    \/ \E e \in DispatchEnvelopes : \E c \in Channels(e) : DropDuplicate(e, c)
    \/ \E e \in DispatchEnvelopes : \E c \in Channels(e) : RcvJoin(e, c)
    \/ \E e \in DispatchEnvelopes : \E c \in Channels(e) : RcvGossip(e, c)
    \/ \E e \in DispatchEnvelopes : \E c \in Channels(e) : RcvPing(e, c)
    \/ \E e \in DispatchEnvelopes : \E c \in Channels(e) : RcvLeave(e, c)
    \/ \E e \in DispatchEnvelopes : \E c \in Channels(e) : RcvEvent(e, c)
    \/ \E e \in DispatchEnvelopes : \E c \in Channels(e) : RcvUnknown(e, c)

\* ------------------------------------------------------------------------
\* node.py: _handle_request and _broadcast_event; memory_client.py: _call
\* ------------------------------------------------------------------------

\* the msg_id of the k-th envelope the node originates
LocalId(k) == 0 - k

\* the ttl _broadcast_event gives an event
EVENT_TTL == 3

\* _broadcast_event: the event envelope, ttl 3
EventEnvelope(id, sender, etype) ==
    Envelope("event", id, sender, EVENT_TTL, <<>>, None, etype)

\* _broadcast_event: the new msg_id is marked seen (nothing is evicted
\* here) and the envelope goes to every outbound and inbound neighbour
BroadcastEvent(etype) ==
    /\ next_local < MaxLocal
    /\ next_local' = next_local + 1
    /\ seen_msgs' = Append(seen_msgs, LocalId(next_local + 1))
    /\ \E failOut \in SUBSET outbound_ws, failIn \in SUBSET DOMAIN inbound_ws :
          /\ outbox' = BroadcastSent(outbound_ws, inbound_ws, failOut, failIn,
                                     EventEnvelope(LocalId(next_local + 1),
                                                   Self, etype))
          /\ outbound_ws' = outbound_ws \ failOut
          /\ inbound_ws' = WithoutKeys(inbound_ws, failIn)

\* the methods the registered memory service implements: every method of
\* the memory API (getattr on any other name raises, which is the failing
\* outcome of a call)
ServiceMethods == Methods

\* the methods after which _handle_request broadcasts an event
RequestEventMethods == {"observe", "claim"}

\* the methods after which _execute_local broadcasts an event
LocalEventMethods == {"observe", "claim", "flag_contradiction"}

\* a faulty capability test that is content with any one capability
CanServeAny(caps, method) ==
    METHOD_CAPABILITIES(method) = {}
    \/ METHOD_CAPABILITIES(method) \cap caps # {}

\* required.issubset(capabilities) of _handle_request and _call
CanServe(caps, method) == METHOD_CAPABILITIES(method) \subseteq caps

Response(err) == [msg_type |-> "response", error |-> err, peers |-> <<>>]

Outcome(e, type, o, flood) ==
    [msg_id |-> e.msg_id, msg_type |-> type, ttl |-> e.ttl,
     method |-> e.method, handled |-> TRUE, outcome |-> o,
     flood_id |-> flood]

\* _handle_request without the capabilities for the method
RcvRequestLacking(e) ==
    /\ e.msg_type = "request"
    /\ Accept(e, Http)
    /\ CountTracked(e)
    /\ ~CanServe(capabilities, e.method)
    /\ last' = Outcome(e, "request", "lacks_capabilities", 0)
    /\ reply' = Response(TRUE)
    /\ outbox' = {}
    /\ UNCHANGED <<inbound_ws, memory_registered, next_local>>
    /\ UNCHANGED routingVars
    /\ UNCHANGED notNode

\* _handle_request when the memory service is missing or the call raises
RcvRequestFailing(e) ==
    /\ e.msg_type = "request"
    /\ Accept(e, Http)
    /\ CountTracked(e)
    /\ CanServe(capabilities, e.method)
    /\ last' = Outcome(e, "request",
                       IF memory_registered THEN "raised" ELSE "no_service", 0)
    /\ reply' = Response(TRUE)
    /\ outbox' = {}
    /\ UNCHANGED <<inbound_ws, memory_registered, next_local>>
    /\ UNCHANGED routingVars
    /\ UNCHANGED notNode

\* _handle_request when the memory call returns: observe and claim are
\* followed by _broadcast_event, then the result is returned
RcvRequestServed(e) ==
    /\ e.msg_type = "request"
    /\ ~Seen(seen_msgs, e.msg_id)
    /\ e.msg_id = Tracked => dispatches < MaxCount
    /\ CountTracked(e)
    /\ CountEvicted(e)
    /\ CanServe(capabilities, e.method)
    /\ memory_registered
    /\ e.method \in ServiceMethods
    /\ reply' = Response(FALSE)
    /\ IF e.method \in RequestEventMethods
       THEN /\ next_local < MaxLocal
            /\ next_local' = next_local + 1
            /\ seen_msgs' = Append(Remember(seen_msgs, e.msg_id),
                                   LocalId(next_local + 1))
            /\ \E failOut \in SUBSET outbound_ws,
                  failIn \in SUBSET DOMAIN inbound_ws :
                  /\ outbox' = BroadcastSent(
                        outbound_ws, inbound_ws, failOut, failIn,
                        EventEnvelope(LocalId(next_local + 1), Self,
                                      e.method))
                  /\ outbound_ws' = outbound_ws \ failOut
                  /\ inbound_ws' = WithoutKeys(inbound_ws, failIn)
            /\ last' = Outcome(e, "request", "ok", LocalId(next_local + 1))
       ELSE /\ seen_msgs' = Remember(seen_msgs, e.msg_id)
            /\ outbox' = {}
            /\ last' = Outcome(e, "request", "ok", 0)
            /\ UNCHANGED <<outbound_ws, inbound_ws, next_local>>
    /\ UNCHANGED <<routing, url_overrides, started, now, max_seq_seen,
                   capabilities, memory_registered>>
    /\ UNCHANGED notNode

\* what a call of the memory client looks like in `last`
Called(method, o, flood) ==
    [msg_id |-> 0, msg_type |-> "call", ttl |-> 0, method |-> method,
     handled |-> TRUE, outcome |-> o, flood_id |-> flood]

\* _call -> _execute_local when the service is missing or the call raises
CallLocalFailing(method) ==
    /\ CanServe(capabilities, method)
    /\ last' = Called(method,
                      IF memory_registered THEN "raised"
                      ELSE "no_local_service", 0)
    /\ reply' = NoReply
    /\ outbox' = {}
    /\ UNCHANGED <<inbound_ws, seen_msgs, dispatches, evictions,
                   memory_registered, next_local>>
    /\ UNCHANGED routingVars
    /\ UNCHANGED notNode

\* _call -> _execute_local when the memory call returns
CallLocal(method) ==
    /\ CanServe(capabilities, method)
    /\ memory_registered
    /\ method \in ServiceMethods
    /\ reply' = NoReply
    /\ IF method \in LocalEventMethods
       THEN /\ BroadcastEvent(method)
            /\ last' = Called(method, "ok", LocalId(next_local + 1))
       ELSE /\ outbox' = {}
            /\ last' = Called(method, "ok", 0)
            /\ UNCHANGED <<outbound_ws, inbound_ws, seen_msgs, next_local>>
    /\ UNCHANGED <<routing, url_overrides, started, now, max_seq_seen,
                   capabilities, memory_registered, dispatches, evictions>>
    /\ UNCHANGED notNode

\* _call when route_method finds no peer
CallNoPeer(method) ==
    /\ ~CanServe(capabilities, method)
    /\ None \in route_method(routing, method, Self)
    /\ last' = Called(method, "no_capable_peer", 0)
    /\ reply' = NoReply
    /\ outbox' = {}
    /\ UNCHANGED <<inbound_ws, seen_msgs, dispatches, evictions,
                   memory_registered, next_local>>
    /\ UNCHANGED routingVars
    /\ UNCHANGED notNode

\* what _execute_remote makes of the peer's answer
RemoteOutcomes == {"result", "error", "no_response", "unexpected_type"}

\* _call -> _execute_remote: one request envelope is posted to the peer
\* route_method returned
CallRemote(method, peer, o) ==
    /\ ~CanServe(capabilities, method)
    /\ peer \in route_method(routing, method, Self)
    /\ peer # None
    /\ last' = Called(method, o, 0)
    /\ reply' = NoReply
    /\ outbox' = {Sent(peer, "http",
                       Envelope("request", 0, Self, 3, <<>>, method, None))}
    /\ UNCHANGED <<inbound_ws, seen_msgs, dispatches, evictions,
                   memory_registered, next_local>>
    /\ UNCHANGED routingVars
    /\ UNCHANGED notNode

\* routing tables a started node can hold (each is reached in SpecRouting)
RpcTables ==
    {<<>>,
     <<JoinState("p1", 0)>>,
     <<JoinState("p1", 0), JoinState("p2", 0)>>,
     <<PeerState("p1", "adv", "adv", "suspect", 0, 0, "m0"),
       JoinState("p2", 0)>>}

\* the streams the node holds: none, or an outbound stream to p1 and an
\* inbound stream of p2
RpcStreams == {<<{}, << >> >>, <<{"p1"}, [k \in {"p2"} |-> "p2"]>>}

NodeCapSets == {{"store", "llm"}, {"llm"}, {"cli"}}

InitRpc ==
    /\ routing \in RpcTables
    /\ url_overrides = NoOverrides
    /\ \E st \in RpcStreams : outbound_ws = st[1] /\ inbound_ws = st[2]
    /\ started = TRUE
    /\ now = 0
    /\ max_seq_seen = [p \in Peers |-> -1]
    /\ capabilities \in NodeCapSets
    /\ seen_msgs = <<>>
    /\ last = Handled(NoEnvelope, FALSE)
    /\ reply = NoReply
    /\ outbox = {}
    /\ dispatches = 0
    /\ evictions = 0
    /\ memory_registered \in BOOLEAN
    /\ next_local = 0

\* the methods called in SpecRpc: the three mutating ones, one that needs
\* llm only, one that needs store only, and the two schema methods, which
\* have no entry in METHOD_CAPABILITIES
RpcMethods ==
    {"observe", "claim", "flag_contradiction", "infer",
     "get_recent_observations", "get_schema", "update_schema"}

\* the request envelopes peers post in SpecRpc, and the echoes of the
\* node's own events
RpcEnvelopes ==
    {Envelope("request", id, "p2", 3, <<>>, m, None) :
        id \in 1..NumRpcIds, m \in RpcMethods}

Echoes ==
    {Envelope("event", LocalId(k), Self, 2, <<>>, None, m) :
        k \in 1..next_local, m \in LocalEventMethods}

NextRpc ==
    \/ \E e \in RpcEnvelopes : RcvRequestLacking(e)
    \/ \E e \in RpcEnvelopes : RcvRequestFailing(e)
    \/ \E e \in RpcEnvelopes : RcvRequestServed(e)
    \/ \E e \in RpcEnvelopes : DropDuplicate(e, Http)
    \/ \E e \in Echoes : DropDuplicate(e, OutStream("p1"))
    \/ \E m \in RpcMethods : CallLocalFailing(m)
    \/ \E m \in RpcMethods : CallLocal(m)
    \/ \E m \in RpcMethods : CallNoPeer(m)
    \/ \E m \in RpcMethods, q \in Peers, o \in RemoteOutcomes :
          CallRemote(m, q, o)

\* the node of SpecSeen: it has store and llm and a memory service, so its
\* own calls are served locally, and peers send it envelopes
InitSeen ==
    /\ routing = <<>>
    /\ url_overrides = NoOverrides
    /\ outbound_ws \in {{}, {"p1"}}
    /\ inbound_ws = << >>
    /\ started = TRUE
    /\ now = 0
    /\ max_seq_seen = [p \in Peers |-> -1]
    /\ capabilities = {"store", "llm"}
    /\ seen_msgs = <<>>
    /\ last = Handled(NoEnvelope, FALSE)
    /\ reply = NoReply
    /\ outbox = {}
    /\ dispatches = 0
    /\ evictions = 0
    /\ memory_registered = TRUE
    /\ next_local = 0

\* the envelopes peers send in SpecSeen, one per msg_id: a ping, and
\* events on their last hop
SeenEnvelopes ==
    {Envelope("ping", Tracked, "p2", 3, <<>>, None, None)}
    \cup {Envelope("event", id, "p2", 1, <<>>, None, "claim") :
             id \in MsgIds \ {Tracked}}

NextSeen ==
    \/ \E e \in SeenEnvelopes : \E c \in Channels(e) : DropDuplicate(e, c)
    \/ \E e \in SeenEnvelopes : \E c \in Channels(e) : RcvPing(e, c)
    \/ \E e \in SeenEnvelopes : \E c \in Channels(e) : RcvEvent(e, c)
    \/ \E m \in {"observe", "claim"} : CallLocal(m)

\* the node of SpecInbound: with or without the capabilities of a store
\* node and a registered memory service
InitInbound ==
    /\ routing = <<>>
    /\ url_overrides = NoOverrides
    /\ outbound_ws = {"p1"}
    /\ inbound_ws = << >>
    /\ started = TRUE
    /\ now = 0
    /\ max_seq_seen = [p \in Peers |-> -1]
    /\ capabilities \in {{"store", "llm"}, {"cli"}}
    /\ seen_msgs = <<>>
    /\ last = Handled(NoEnvelope, FALSE)
    /\ reply = NoReply
    /\ outbox = {}
    /\ dispatches = 0
    /\ evictions = 0
    /\ memory_registered \in BOOLEAN
    /\ next_local = 0

\* the envelopes peers send in SpecInbound, one per msg_id: a join, a
\* gossip of two states, a request, an envelope of a type without a
\* handler
InboundEnvelopes ==
    {Envelope("join", 1, "p1", 3, <<>>, None, None),
     Envelope("gossip", 2, "p2", 3,
              <<OwnState("p2", 0, 0), OwnState("p1", 0, 0)>>, None, None),
     Envelope("request", 3, "p2", 3, <<>>, "infer", None),
     Envelope("welcome", 4, "p2", 3, <<>>, None, None)}

\* the channels they arrive on
InboundChannels(e) ==
    IF e.msg_type = "gossip" THEN {InStream(e.sender_id), OutStream("p1")}
    ELSE IF e.msg_type = "join" THEN {Http, InStream(e.sender_id)}
    ELSE {Http}

NextInbound ==
    \/ \E e \in InboundEnvelopes : \E c \in InboundChannels(e) :
          DropDuplicate(e, c)
    \/ \E e \in InboundEnvelopes : \E c \in InboundChannels(e) :
          RcvJoin(e, c)
    \/ \E e \in InboundEnvelopes : \E c \in InboundChannels(e) :
          RcvJoinUnparsed(e, c)
    \/ \E e \in InboundEnvelopes : \E c \in InboundChannels(e) :
          RcvGossip(e, c)
    \/ \E e \in InboundEnvelopes : \E c \in InboundChannels(e) :
          \E k \in {1, 2} : RcvGossipUnparsed(e, c, k)
    \/ \E e \in InboundEnvelopes : \E c \in InboundChannels(e) :
          RcvUnknown(e, c)
    \/ \E e \in InboundEnvelopes : RcvRequestLacking(e)
    \/ \E e \in InboundEnvelopes : RcvRequestFailing(e)
    \/ \E e \in InboundEnvelopes : RcvRequestServed(e)

\* ------------------------------------------------------------------------
\* Several PeerNodes: node.py, gossip.py, transport.py, memory_client.py
\* with the envelopes in flight between the nodes
\* ------------------------------------------------------------------------

HEARTBEAT_INTERVAL == 5
GOSSIP_INTERVAL == 5
GOSSIP_FANOUT == 3

Nodes == DOMAIN net_routing

\* _heartbeat_loop: the sequence number of a node that has been up since 0
HeartbeatSeq(t) == t \div HEARTBEAT_INTERVAL

\* _gossip_round: own_state, with the metadata of _build_metadata
GossipOwnState(n, t) ==
    PeerState(n, "adv", "adv", "alive", t, HeartbeatSeq(t), "m1")

\* run_node.py: a node with store and llm registers the memory service
HasMemory(n) == {"store", "llm"} \subseteq PeerCaps(n)

\* an envelope node n sent over a stream
OnWire(n, sent) ==
    [src |-> n, to |-> sent.to, via |-> sent.via, envelope |-> sent.envelope]

\* the side of the stream an envelope arrives on: what went out over the
\* sender's outbound stream is read by _handle_ws, what went out over one
\* of its inbound streams is read by _ws_read_loop
ArrivesOn(m) ==
    IF m.via = "outbound" THEN InStream(m.src) ELSE OutStream(m.src)

\* the copies a broadcast of node n puts on the wire
Broadcast(n, out, inbound, e) ==
    {OnWire(n, x) : x \in BroadcastSent(out, inbound, {}, {}, e)}

\* the streams of node n that lead to node c are gone
WithoutPeer(inbound, c) ==
    WithoutKeys(inbound, {k \in DOMAIN inbound : inbound[k] = c})

\* start() of node n with the running node seed as its bootstrap peer: the
\* join is posted, the seed's handle_envelope and _handle_join answer with
\* the welcome, its peers go to update_peer, then _connect_to_neighbors
NetStart(n, seed) ==
    /\ n \notin net_running
    /\ net_crashed_at < 0
    /\ seed \in net_running
    /\ net_next_id < MaxEnvelopes
    /\ LET id == net_next_id + 1
           seedTable ==
               update_peer(net_routing[seed], JoinState(n, net_now)).peers
           welcome ==
               SelectSeq(<<OwnState(seed, HeartbeatSeq(net_now), net_now)>>
                            \o seedTable,
                         LAMBDA ps : ps.node_id # n)
           mine == UpdateAll(net_routing[n], welcome)
           targets ==
               ConnectTargets(mine, n, PeerCaps(n), net_outbound_ws[n])
                  \cap net_running
       IN  /\ net_routing' =
                 [net_routing EXCEPT ![seed] = seedTable, ![n] = mine]
           /\ net_seen_msgs' =
                 [net_seen_msgs EXCEPT ![seed] = Remember(@, id)]
           /\ net_outbound_ws' =
                 [net_outbound_ws EXCEPT ![n] = @ \cup targets]
           /\ net_next_id' = id
    /\ net_running' = net_running \cup {n}
    /\ UNCHANGED <<net_inbound_ws, net_heard, net_now, net_wire, net_emitted,
                   net_crashed_at, net_checked, net_last>>
    /\ UNCHANGED notNet

\* _gossip_round of node n: own state and the whole table go to a sample
\* of the neighbours, over the outbound stream if there is one and else
\* over the inbound stream filed under the target's id
NetGossipRound(n, targets) ==
    /\ n \in net_running
    /\ net_next_id < MaxEnvelopes
    /\ Cardinality({m \in net_wire : m.envelope.msg_type = "gossip"})
          < MaxGossipInFlight
    /\ LET neighbor_ids ==
               net_outbound_ws[n] \cup DOMAIN net_inbound_ws[n]
           k == IF Cardinality(neighbor_ids) < GOSSIP_FANOUT
                THEN Cardinality(neighbor_ids) ELSE GOSSIP_FANOUT
           e == Envelope("gossip", net_next_id + 1, n, 3,
                         <<GossipOwnState(n, net_now)>> \o net_routing[n],
                         None, None)
       IN  /\ neighbor_ids # {}
           /\ targets \subseteq neighbor_ids
           /\ Cardinality(targets) = k
           /\ net_wire' = net_wire
                 \cup {OnWire(n, Sent(t, "outbound", e)) :
                          t \in targets \cap net_outbound_ws[n]}
                 \cup {OnWire(n, Sent(net_inbound_ws[n][t], "inbound", e)) :
                          t \in targets \ net_outbound_ws[n]}
    /\ net_next_id' = net_next_id + 1
    /\ UNCHANGED <<net_routing, net_outbound_ws, net_inbound_ws,
                   net_seen_msgs, net_heard, net_running, net_now,
                   net_emitted, net_crashed_at, net_checked, net_last>>
    /\ UNCHANGED notNet

\* an envelope arrives at a node that has seen its msg_id: it is dropped
NetDropDuplicate(m) ==
    /\ m \in net_wire
    /\ Seen(net_seen_msgs[m.to], m.envelope.msg_id)
    /\ net_wire' = net_wire \ {m}
    /\ net_inbound_ws' =
          [net_inbound_ws EXCEPT
              ![m.to] = Registered(@, ArrivesOn(m), m.envelope)]
    /\ UNCHANGED <<net_routing, net_outbound_ws, net_seen_msgs, net_heard,
                   net_running, net_now, net_next_id, net_emitted,
                   net_crashed_at, net_checked, net_last>>
    /\ UNCHANGED notNet

\* a gossip envelope arrives: handle_envelope, _handle_gossip
NetRcvGossip(m) ==
    /\ m \in net_wire
    /\ m.envelope.msg_type = "gossip"
    /\ ~Seen(net_seen_msgs[m.to], m.envelope.msg_id)
    /\ net_wire' = net_wire \ {m}
    /\ net_inbound_ws' =
          [net_inbound_ws EXCEPT
              ![m.to] = Registered(@, ArrivesOn(m), m.envelope)]
    /\ net_seen_msgs' =
          [net_seen_msgs EXCEPT ![m.to] = Remember(@, m.envelope.msg_id)]
    /\ net_routing' =
          [net_routing EXCEPT
              ![m.to] = handle_gossip(@, m.to, NoOverrides,
                                      m.envelope.peer_states, net_now)]
    /\ UNCHANGED <<net_outbound_ws, net_heard, net_running, net_now,
                   net_next_id, net_emitted, net_crashed_at, net_checked,
                   net_last>>
    /\ UNCHANGED notNet

\* an event envelope arrives: handle_envelope, _handle_event
NetRcvEvent(m) ==
    /\ m \in net_wire
    /\ m.envelope.msg_type = "event"
    /\ ~Seen(net_seen_msgs[m.to], m.envelope.msg_id)
    /\ net_seen_msgs' =
          [net_seen_msgs EXCEPT ![m.to] = Remember(@, m.envelope.msg_id)]
    /\ net_heard' = [net_heard EXCEPT ![m.to] = @ \cup {m.envelope.msg_id}]
    /\ LET inbound ==
               Registered(net_inbound_ws[m.to], ArrivesOn(m), m.envelope)
       IN  /\ net_inbound_ws' = [net_inbound_ws EXCEPT ![m.to] = inbound]
           /\ net_wire' =
                 IF TtlAllows(m.envelope)
                 THEN (net_wire \ {m})
                        \cup Broadcast(m.to, net_outbound_ws[m.to], inbound,
                                       Forwarded(m.envelope))
                 ELSE net_wire \ {m}
    /\ UNCHANGED <<net_routing, net_outbound_ws, net_running, net_now,
                   net_next_id, net_emitted, net_crashed_at, net_checked,
                   net_last>>
    /\ UNCHANGED notNet

\* one pass of _health_check_loop at node n; close_peer of a removed peer
\* ends the stream, and ws_connect reaches the targets that are up
NetHealthPass(n) ==
    LET gone == ToRemove(net_routing[n], net_now)
        table == HealthChecked(net_routing[n], net_now)
        kept == net_outbound_ws[n] \ gone
        targets ==
            ConnectTargets(table, n, PeerCaps(n), kept) \cap net_running
    IN  /\ net_routing' = [net_routing EXCEPT ![n] = table]
        /\ net_outbound_ws' =
              [net_outbound_ws EXCEPT ![n] = kept \cup targets]
        /\ net_inbound_ws' =
              [x \in Nodes |->
                  IF x \in gone \cap net_outbound_ws[n]
                  THEN WithoutPeer(net_inbound_ws[x], n)
                  ELSE net_inbound_ws[x]]

NetHealthCheck(n) ==
    /\ n \in net_running
    /\ NetHealthPass(n)
    /\ net_checked' =
          IF net_crashed_at >= 0 /\ net_now - net_crashed_at > DEAD_TIMEOUT
          THEN net_checked \cup {n} ELSE net_checked
    /\ UNCHANGED <<net_seen_msgs, net_heard, net_running, net_now, net_wire,
                   net_next_id, net_emitted, net_crashed_at, net_last>>
    /\ UNCHANGED notNet

\* a ping is posted to /p2p/message of node n: handle_envelope remembers
\* its msg_id and _handle_ping answers the caller
NetRcvPing(n) ==
    /\ n \in net_running
    /\ net_next_id < MaxEnvelopes + MaxPings
    /\ net_next_id' = net_next_id + 1
    /\ net_seen_msgs' =
          [net_seen_msgs EXCEPT ![n] = Remember(@, net_next_id + 1)]
    /\ UNCHANGED <<net_routing, net_outbound_ws, net_inbound_ws, net_heard,
                   net_running, net_now, net_wire, net_emitted,
                   net_crashed_at, net_checked, net_last>>
    /\ UNCHANGED notNet

\* node c crashes: it sends nothing further, what is in flight from it or
\* to it is lost, and its streams close at the other end
NetCrash(c) ==
    /\ c \in net_running
    /\ net_crashed_at < 0
    /\ net_running' = net_running \ {c}
    /\ net_crashed_at' = net_now
    /\ net_wire' = {m \in net_wire : m.src # c /\ m.to # c}
    /\ net_outbound_ws' = [x \in Nodes |-> net_outbound_ws[x] \ {c}]
    /\ net_inbound_ws' = [x \in Nodes |-> WithoutPeer(net_inbound_ws[x], c)]
    /\ UNCHANGED <<net_routing, net_seen_msgs, net_heard, net_now,
                   net_next_id, net_emitted, net_checked, net_last>>
    /\ UNCHANGED notNet

\* time passes; an envelope is in flight for much less than a health-check
\* period, so the wire is empty when the clock moves on
NetTick ==
    /\ net_now < MaxTicks * TickStep
    /\ net_wire = {}
    /\ net_now' = net_now + TickStep
    /\ UNCHANGED <<net_routing, net_outbound_ws, net_inbound_ws,
                   net_seen_msgs, net_heard, net_running, net_wire,
                   net_next_id, net_emitted, net_crashed_at, net_checked,
                   net_last>>
    /\ UNCHANGED notNet

\* what a call of a memory client looks like in net_last
NetCalled(n, method, o, peer, id) ==
    [node |-> n, method |-> method, outcome |-> o, peer |-> peer,
     event_id |-> id]

NoCall == NetCalled(None, None, None, None, 0)

\* an entry of net_emitted
Emitted(id, origin, caller, method) ==
    [id |-> id, origin |-> origin, caller |-> caller, method |-> method]

\* _call -> _execute_local at a node with the capabilities and the memory
\* service, the memory call returning: observe, claim and
\* flag_contradiction are followed by _broadcast_event
NetCallLocal(n, method) ==
    /\ n \in net_running
    /\ CanServe(PeerCaps(n), method)
    /\ HasMemory(n)
    /\ method \in ServiceMethods
    /\ IF method \in LocalEventMethods
       THEN LET id == net_next_id + 1 IN
            /\ net_next_id < MaxEnvelopes
            /\ Cardinality(net_emitted) < MaxEvents
            /\ net_next_id' = id
            /\ net_seen_msgs' = [net_seen_msgs EXCEPT ![n] = Append(@, id)]
            /\ net_wire' = net_wire
                  \cup Broadcast(n, net_outbound_ws[n], net_inbound_ws[n],
                                 EventEnvelope(id, n, method))
            /\ net_emitted' = net_emitted \cup {Emitted(id, n, n, method)}
            /\ net_last' = NetCalled(n, method, "ok", None, id)
       ELSE /\ net_last' = NetCalled(n, method, "ok", None, 0)
            /\ UNCHANGED <<net_next_id, net_seen_msgs, net_wire,
                           net_emitted>>
    /\ UNCHANGED <<net_routing, net_outbound_ws, net_inbound_ws, net_heard,
                   net_running, net_now, net_crashed_at, net_checked>>
    /\ UNCHANGED notNet

\* _call at a node without the capabilities when route_method finds no peer
NetCallNoPeer(n, method) ==
    /\ n \in net_running
    /\ ~CanServe(PeerCaps(n), method)
    /\ None \in route_method(net_routing[n], method, n)
    /\ net_last' = NetCalled(n, method, "no_capable_peer", None, 0)
    /\ UNCHANGED <<net_routing, net_outbound_ws, net_inbound_ws,
                   net_seen_msgs, net_heard, net_running, net_now, net_wire,
                   net_next_id, net_emitted, net_crashed_at, net_checked>>
    /\ UNCHANGED notNet

\* _call -> _execute_remote: the request is posted to the peer route_method
\* chose; the peer's handle_envelope and _handle_request run the memory
\* call, broadcast an event after observe and claim, and return the result
NetCallRemote(n, method, peer) ==
    /\ n \in net_running
    /\ ~CanServe(PeerCaps(n), method)
    /\ peer \in route_method(net_routing[n], method, n)
    /\ peer \in net_running
    /\ CanServe(PeerCaps(peer), method)
    /\ HasMemory(peer)
    /\ method \in ServiceMethods
    /\ net_next_id + 2 <= MaxEnvelopes
    /\ LET rid == net_next_id + 1
           id == net_next_id + 2
       IN  IF method \in RequestEventMethods
           THEN /\ Cardinality(net_emitted) < MaxEvents
                /\ net_next_id' = id
                /\ net_seen_msgs' =
                      [net_seen_msgs EXCEPT
                          ![peer] = Append(Remember(@, rid), id)]
                /\ net_wire' = net_wire
                      \cup Broadcast(peer, net_outbound_ws[peer],
                                     net_inbound_ws[peer],
                                     EventEnvelope(id, peer, method))
                /\ net_emitted' =
                      net_emitted \cup {Emitted(id, peer, n, method)}
                /\ net_last' = NetCalled(n, method, "result", peer, id)
           ELSE /\ net_next_id' = rid
                /\ net_seen_msgs' =
                      [net_seen_msgs EXCEPT ![peer] = Remember(@, rid)]
                /\ net_last' = NetCalled(n, method, "result", peer, 0)
                /\ UNCHANGED <<net_wire, net_emitted>>
    /\ UNCHANGED <<net_routing, net_outbound_ws, net_inbound_ws, net_heard,
                   net_running, net_now, net_crashed_at, net_checked>>
    /\ UNCHANGED notNet

\* the calls the clients of a network make
NetMethods == {"observe", "claim", "flag_contradiction"}

\* Streams are given as pairs <<opener, acceptor>>: the opener holds the
\* stream in _outbound_ws, the acceptor in _inbound_ws under the opener's
\* id once the opener has sent an envelope over it.
OutOf(streams, n) == {x[2] : x \in {y \in streams : y[1] = n}}

InOf(streams, n) ==
    [k \in {x[1] : x \in {y \in streams : y[2] = n}} |-> k]

NodeOrder == <<"n0", "p1", "p2", "p3", "p4">>

\* a routing table that knows the nodes ids, each as it joined at time 0
TableOf(ids) ==
    LET sel == SelectSeq(NodeOrder, LAMBDA x : x \in ids)
    IN  [i \in 1..Len(sel) |-> JoinState(sel[i], 0)]

IdleNet ==
    /\ net_routing = << >>
    /\ net_outbound_ws = << >>
    /\ net_inbound_ws = << >>
    /\ net_seen_msgs = << >>
    /\ net_heard = << >>
    /\ net_running = {}
    /\ net_now = 0
    /\ net_wire = {}
    /\ net_next_id = 0
    /\ net_emitted = {}
    /\ net_crashed_at = -1
    /\ net_checked = {}
    /\ net_last = NoCall

\* the nodes ids, all up since time 0, joined by streams; each knows the
\* nodes it shares a stream with
Meshed(ids, streams) ==
    /\ net_routing =
          [n \in ids |-> TableOf(OutOf(streams, n) \cup DOMAIN InOf(streams, n))]
    /\ net_outbound_ws = [n \in ids |-> OutOf(streams, n)]
    /\ net_inbound_ws = [n \in ids |-> InOf(streams, n)]
    /\ net_seen_msgs = [n \in ids |-> <<>>]
    /\ net_heard = [n \in ids |-> {}]
    /\ net_running = ids
    /\ net_now = 0
    /\ net_wire = {}
    /\ net_next_id = 0
    /\ net_emitted = {}
    /\ net_crashed_at = -1
    /\ net_checked = {}
    /\ net_last = NoCall

\* SpecFlood: p1 has store and llm and handles the calls; the other nodes
\* forward its events
FloodNodes == {"n0", "p1", "p2", "p3", "p4"}

LineStreams ==
    {<<"p1", "p2">>, <<"p2", "p3">>, <<"p3", "p4">>, <<"p4", "n0">>}

StarStreams ==
    {<<"n0", "p1">>, <<"p2", "p1">>, <<"p3", "p1">>, <<"p4", "p1">>}

RingStreams ==
    {<<"p1", "p2">>, <<"p2", "p3">>, <<"p3", "p4">>, <<"p1", "p4">>,
     <<"p4", "n0">>}

FloodTopologies == {LineStreams, StarStreams, RingStreams}

InitFlood == \E streams \in FloodTopologies : Meshed(FloodNodes, streams)

NextFlood ==
    \/ \E n \in {"p1"}, method \in NetMethods : NetCallLocal(n, method)
    \/ \E n \in {"n0"}, method \in NetMethods : NetCallNoPeer(n, method)
    \/ \E n \in {"n0"}, method \in NetMethods, q \in FloodNodes :
          NetCallRemote(n, method, q)
    \/ \E m \in net_wire : NetRcvEvent(m)
    \/ \E m \in net_wire : NetDropDuplicate(m)

\* SpecPair: p1 (store, llm) is up; n0 (cli) starts with p1 as its
\* bootstrap peer
PairNodes == {"n0", "p1"}

InitPair ==
    /\ net_routing = [n \in PairNodes |-> <<>>]
    /\ net_outbound_ws = [n \in PairNodes |-> {}]
    /\ net_inbound_ws = [n \in PairNodes |-> << >>]
    /\ net_seen_msgs = [n \in PairNodes |-> <<>>]
    /\ net_heard = [n \in PairNodes |-> {}]
    /\ net_running = {"p1"}
    /\ net_now = 0
    /\ net_wire = {}
    /\ net_next_id = 0
    /\ net_emitted = {}
    /\ net_crashed_at = -1
    /\ net_checked = {}
    /\ net_last = NoCall

NextPair ==
    \/ NetStart("n0", "p1")
    \/ \E n \in PairNodes, t \in SUBSET PairNodes : NetGossipRound(n, t)
    \/ \E m \in net_wire : NetRcvGossip(m)
    \/ \E m \in net_wire : NetRcvEvent(m)
    \/ \E m \in net_wire : NetDropDuplicate(m)
    \/ \E n \in PairNodes : NetHealthCheck(n)
    \/ \E method \in NetMethods : NetCallLocal("p1", method)
    \/ \E method \in NetMethods : NetCallNoPeer("n0", method)
    \/ \E method \in NetMethods : NetCallRemote("n0", method, "p1")
    \/ NetTick

\* SpecHealth: n0, p1 and p2 know each other and are joined by streams;
\* p2 crashes before its next gossip round and health check
HealthNodes == {"n0", "p1", "p2"}

CrashNode == "p2"

HealthStreams == {<<"n0", "p1">>, <<"n0", "p2">>, <<"p1", "p2">>}

InitHealth == Meshed(HealthNodes, HealthStreams)

Survivors == HealthNodes \ {CrashNode}

NextHealth ==
    \/ NetCrash(CrashNode)
    \/ \E n \in Survivors, t \in SUBSET HealthNodes : NetGossipRound(n, t)
    \/ \E m \in net_wire : NetRcvGossip(m)
    \/ \E n \in Survivors : NetHealthCheck(n)
    \/ NetTick

\* SpecCycle: three nodes joined in a cycle, or in a line; p1 has store
\* and llm and originates an event, n0 is pinged
CycleNodes == {"n0", "p1", "p2"}

CycleStreams == {<<"n0", "p1">>, <<"n0", "p2">>, <<"p1", "p2">>}

ChainStreams == {<<"p1", "p2">>, <<"p2", "n0">>}

InitCycle ==
    \E streams \in {CycleStreams, ChainStreams} :
        Meshed(CycleNodes, streams)

\* the one flood SpecCycle follows: the first observe served by node n
NetOriginate(n) ==
    /\ net_emitted = {}
    /\ NetCallLocal(n, "observe")

NextCycle ==
    \/ \E n \in {"p1"} : NetOriginate(n)
    \/ \E m \in net_wire : NetRcvEvent(m)
    \/ \E m \in net_wire : NetDropDuplicate(m)
    \/ \E n \in {"n0"} : NetRcvPing(n)

\* ------------------------------------------------------------------------
\* SpecTable: one RoutingTable, called with arbitrary arguments
\* ------------------------------------------------------------------------

\* PeerInfo and metadata as two different senders report them.
Payloads == {<<"adv", "m0">>, <<"ovr", "m1">>}

\* the statuses a caller passes in
TableStatus == {"alive", "suspect"}

\* the PeerStates a caller can pass to update_peer: every combination for
\* p1, and p2 as it joined
TableStates ==
    {PeerState("p1", pl[1], pl[1], st, seen, seq, pl[2]) :
        pl \in Payloads, st \in TableStatus,
        seen \in 0..MaxSeen, seq \in 0..MaxSeq}
    \cup {PeerState("p2", "adv", "adv", st, 0, 0, "m0") : st \in TableStatus}

NoState == PeerState(None, "adv", "adv", "alive", 0, 0, "m0")

LastCall(op, state, method, exclude, ret, route, changed) ==
    [op |-> op, state |-> state, method |-> method, exclude |-> exclude,
     ret |-> ret, route |-> route, changed |-> changed]

InitTable ==
    /\ t_peers = <<>>
    /\ t_last = LastCall("init", NoState, None, None, FALSE, None, FALSE)

IdleTable == InitTable

T_UpdatePeer(state) ==
    /\ t_peers' = update_peer(t_peers, state).peers
    /\ t_last' = LastCall("update_peer", state, None, None,
                          update_peer(t_peers, state).ret, None,
                          t_peers' # t_peers)
    /\ UNCHANGED notTable

T_RemovePeer(id) ==
    /\ t_peers' = remove_peer(t_peers, id)
    /\ t_last' = LastCall("remove_peer", NoState, None, id, FALSE, None,
                          t_peers' # t_peers)
    /\ UNCHANGED notTable

T_RouteMethod(method, exclude) ==
    /\ \E r \in route_method(t_peers, method, exclude) :
          t_last' = LastCall("route_method", NoState, method, exclude,
                             FALSE, r, FALSE)
    /\ UNCHANGED t_peers
    /\ UNCHANGED notTable

NextTable ==
    \/ \E state \in TableStates : T_UpdatePeer(state)
    \/ \E id \in Peers : T_RemovePeer(id)
    \/ \E method \in Methods, exclude \in {"", "p1"} :
          T_RouteMethod(method, exclude)


\* ------------------------------------------------------------------------
\* schema/loader.py: PredicateSchema
\* A schema dict (the YAML document, the payload of a schema_updated event)
\* is a record: predicates maps a name to its props, a function from field
\* names to values; exclusivity_groups is the list of the groups in the
\* dict's insertion order.
\* ------------------------------------------------------------------------

\* str.strip().lower() on the names of the model
Canonical(name) ==
    CASE name = "Hobby" -> "hobby"
      [] name = "Mentors" -> "mentors"
      [] OTHER -> name

\* props.get(field, default)
PropsGet(props, field, default) ==
    IF field \in DOMAIN props THEN props[field] ELSE default

\* the PredicateInfo from_dict builds for one entry of data["predicates"]
PredicateInfo(name, props, defaults) ==
    [name |-> Canonical(name),
     cardinality |-> PropsGet(props, "cardinality", defaults.cardinality),
     temporality |-> PropsGet(props, "temporality", defaults.temporality),
     aliases |-> PropsGet(props, "aliases", <<>>)]

\* defaults.get("cardinality", "single"), defaults.get("temporality",
\* "unknown")
DefaultsOf(data) ==
    [cardinality |-> PropsGet(data.defaults, "cardinality", "single"),
     temporality |-> PropsGet(data.defaults, "temporality", "unknown")]

\* PredicateSchema.from_dict
from_dict(data) ==
    LET defaults == DefaultsOf(data)
        names == DOMAIN data.predicates
        infos == {PredicateInfo(n, data.predicates[n], defaults) : n \in names}
        aliased == UNION {{Canonical(i.aliases[k]) : k \in 1..Len(i.aliases)} :
                             i \in infos}
    IN  [loaded |-> TRUE,
         predicates |->
            [c \in {i.name : i \in infos} |->
                CHOOSE i \in infos : i.name = c],
         alias_map |->
            [a \in aliased |->
                CHOOSE c \in {i.name : i \in infos} :
                    \E i \in infos :
                        /\ i.name = c
                        /\ \E k \in 1..Len(i.aliases) :
                              Canonical(i.aliases[k]) = a],
         exclusivity_groups |->
            [g \in 1..Len(data.exclusivity_groups) |->
                [name |-> data.exclusivity_groups[g].name,
                 predicates |->
                    {Canonical(p) :
                        p \in data.exclusivity_groups[g].predicates}]],
         default_cardinality |-> defaults.cardinality,
         default_temporality |-> defaults.temporality]

\* schema=None in ValidatorAgent.__init__
NoSchema ==
    [loaded |-> FALSE, predicates |-> << >>, alias_map |-> << >>,
     exclusivity_groups |-> <<>>, default_cardinality |-> "single",
     default_temporality |-> "unknown"]

\* PredicateSchema.normalize_predicate
normalize_predicate(schema, predicate) ==
    LET normalized == Canonical(predicate)
    IN  IF normalized \in DOMAIN schema.alias_map
        THEN schema.alias_map[normalized] ELSE normalized

\* PredicateSchema.is_multi_valued (get_info resolves the alias)
is_multi_valued(schema, predicate) ==
    LET canonical == normalize_predicate(schema, predicate)
    IN  IF canonical \notin DOMAIN schema.predicates
        THEN schema.default_cardinality = "multi"
        ELSE schema.predicates[canonical].cardinality = "multi"

\* PredicateSchema.get_exclusivity_group: the name of the first group that
\* holds the predicate, or None
get_exclusivity_group(schema, predicate) ==
    LET canonical == normalize_predicate(schema, predicate)
        hits == {g \in 1..Len(schema.exclusivity_groups) :
                    canonical \in schema.exclusivity_groups[g].predicates}
    IN  IF hits = {} THEN None
        ELSE schema.exclusivity_groups[
                 CHOOSE g \in hits : \A h \in hits : g <= h].name

\* ------------------------------------------------------------------------
\* The loops of the nodes on one clock: every node runs its gossip round
\* every GOSSIP_INTERVAL and its health check every HEALTH_CHECK_INTERVAL;
\* a gossip envelope is delivered well within the period it was sent in.
\* net_done counts the passes made at the current time, net_converged
\* records that every table has held every other node.
\* ------------------------------------------------------------------------

GossipNodes == {"n0", "p1", "p2", "p3", "p4"}

\* the nodes whose table holds every other node
Complete(tables) ==
    {n \in DOMAIN tables :
        \A x \in DOMAIN tables \ {n} : PeerIndex(tables[n], x) # 0}

Converged(tables) == Complete(tables) = DOMAIN tables

\* the loops sleep first: nothing runs at time 0, then every node makes a
\* gossip round each period and a health check every other period
Due(t) ==
    IF t = 0 THEN 0
    ELSE IF t % HEALTH_CHECK_INTERVAL = 0 THEN 2 * Len(NodeOrder)
    ELSE Len(NodeOrder)

\* _gossip_round: neighbor_ids
NeighborIds(n) == net_outbound_ws[n] \cup DOMAIN net_inbound_ws[n]

\* random.sample(sorted(neighbor_ids), k): of the samples the call can
\* return, the runs start with the k first and with the k last of the list
Samples(neighbor_ids, k) ==
    LET sorted == SelectSeq(NodeOrder, LAMBDA x : x \in neighbor_ids)
    IN  {{sorted[i] : i \in 1..k},
         {sorted[i] : i \in (Len(sorted) - k + 1)..Len(sorted)}}

\* the node a gossip envelope for target t reaches: ws_send over the
\* outbound stream, else send_to_inbound over the stream filed under t
ReachedBy(n, t) ==
    IF t \in net_outbound_ws[n] THEN t ELSE net_inbound_ws[n][t]

\* _gossip_round of node n with the sample targets, and handle_envelope /
\* handle_gossip at the nodes the envelope reaches.  Every envelope has a
\* msg_id of its own, so none is dropped as a duplicate.
G_GossipRound(n, targets) ==
    /\ net_now > 0
    /\ net_done < Len(NodeOrder)
    /\ n = NodeOrder[net_done + 1]
    /\ LET neighbor_ids == NeighborIds(n)
           k == IF Cardinality(neighbor_ids) < GOSSIP_FANOUT
                THEN Cardinality(neighbor_ids) ELSE GOSSIP_FANOUT
           e == Envelope("gossip", 0, n, 3,
                         <<GossipOwnState(n, net_now)>> \o net_routing[n],
                         None, None)
           reached == {ReachedBy(n, t) : t \in targets}
       IN  /\ targets \in Samples(neighbor_ids, k)
           /\ net_routing' =
                 [x \in Nodes |->
                     IF x \in reached
                     THEN handle_gossip(net_routing[x], x, NoOverrides,
                                        e.peer_states, net_now)
                     ELSE net_routing[x]]
           /\ net_inbound_ws' =
                 [x \in Nodes |->
                     IF x \in targets \cap net_outbound_ws[n]
                     THEN Registered(net_inbound_ws[x], InStream(n), e)
                     ELSE net_inbound_ws[x]]
    /\ net_done' = net_done + 1
    /\ net_converged' = (net_converged \/ Converged(net_routing'))
    /\ UNCHANGED <<net_outbound_ws, net_seen_msgs, net_heard, net_running,
                   net_now, net_wire, net_next_id, net_emitted,
                   net_crashed_at, net_checked, net_last>>
    /\ UNCHANGED notTimed

\* one pass of _health_check_loop at node n
G_HealthCheck(n) ==
    /\ net_now > 0
    /\ net_now % HEALTH_CHECK_INTERVAL = 0
    /\ net_done >= Len(NodeOrder)
    /\ net_done < 2 * Len(NodeOrder)
    /\ n = NodeOrder[net_done - Len(NodeOrder) + 1]
    /\ NetHealthPass(n)
    /\ net_done' = net_done + 1
    /\ net_converged' = (net_converged \/ Converged(net_routing'))
    /\ UNCHANGED <<net_seen_msgs, net_heard, net_running, net_now, net_wire,
                   net_next_id, net_emitted, net_crashed_at, net_checked,
                   net_last>>
    /\ UNCHANGED notTimed

\* the loops sleep until the next period
G_Tick ==
    /\ net_done = Due(net_now)
    /\ net_now < MaxPeriods * GOSSIP_INTERVAL
    /\ net_now' = net_now + GOSSIP_INTERVAL
    /\ net_done' = 0
    /\ UNCHANGED net_converged
    /\ UNCHANGED <<net_routing, net_outbound_ws, net_inbound_ws,
                   net_seen_msgs, net_heard, net_running, net_wire,
                   net_next_id, net_emitted, net_crashed_at, net_checked,
                   net_last>>
    /\ UNCHANGED notTimed

\* five nodes that joined through p1 and hold a stream to it; nobody fails
InitGossip ==
    /\ Meshed(GossipNodes, StarStreams)
    /\ net_done = 0
    /\ net_converged = FALSE

NextGossip ==
    \/ \E n \in GossipNodes, targets \in SUBSET GossipNodes :
          G_GossipRound(n, targets)
    \/ \E n \in GossipNodes : G_HealthCheck(n)
    \/ G_Tick

\* ------------------------------------------------------------------------
\* agents/validator.py, p2p/local_state.py, store.py: the validator and the
\* statements it reads
\* ------------------------------------------------------------------------

\* the limit process() passes to get_recent_statements
RECENT_LIMIT == 20

Subjects == {"alice", "bob"}
StatementPredicates == {"Hobby", "works_at", "unemployed"}
Objects == {"x", "y"}

\* the triples the claims of the model are parsed into: every one about
\* alice, and one about bob
Triples ==
    {t \in Subjects \X StatementPredicates \X Objects :
        t[1] = "bob" => (t[2] = "unemployed" /\ t[3] = "x")}

\* a row of find_recent_statements
Statement(id, subject, predicate, object) ==
    [id |-> id, subject_name |-> subject, predicate |-> predicate,
     object_name |-> object]

\* the schema dicts of the model.  In both has_hobby (alias hobby) and
\* works_at are multi-valued and works_at and unemployed exclude each
\* other; in the second unemployed is also a member of an earlier group.
EmploymentPredicates ==
    [n \in {"has_hobby", "works_at", "unemployed"} |->
        CASE n = "has_hobby" ->
                [cardinality |-> "multi", temporality |-> "temporal",
                 aliases |-> <<"hobby">>]
          [] n = "works_at" ->
                [cardinality |-> "multi", temporality |-> "temporal"]
          [] OTHER ->
                [cardinality |-> "single", temporality |-> "temporal"]]

SchemaData(version, source, at, defaults, predicates, groups) ==
    [schema_version |-> version, updated_by |-> source, updated_at |-> at,
     defaults |-> defaults, predicates |-> predicates,
     exclusivity_groups |-> groups]

SingleDefaults == [cardinality |-> "single", temporality |-> "unknown"]

EmploymentGroup ==
    [name |-> "employment", predicates |-> {"works_at", "unemployed"}]

IdleGroup == [name |-> "idle", predicates |-> {"unemployed", "retired"}]

EmploymentData ==
    SchemaData(0, "bootstrap", 0, SingleDefaults, EmploymentPredicates,
               <<EmploymentGroup>>)

OverlapData ==
    SchemaData(0, "bootstrap", 0, SingleDefaults, EmploymentPredicates,
               <<IdleGroup, EmploymentGroup>>)

SchemaDatas == {EmploymentData, OverlapData}

\* the values of the schema argument of ValidatorAgent.__init__
ValidatorSchemas == {NoSchema} \cup {from_dict(d) : d \in SchemaDatas}

\* ValidatorAgent.event_types
event_types == {"claim"}

\* ":".join(sorted([s1["id"], s2["id"]]))
PairKey(a, b) == IF a <= b THEN <<a, b>> ELSE <<b, a>>

\* a faulty is_processed that never finds a member
is_processed_never(checked, member) == FALSE

\* LocalAgentState.is_processed
is_processed(checked, member) == member \in checked

\* a faulty mark_processed that adds nothing
mark_processed_nothing(checked, member) == checked

\* LocalAgentState.mark_processed
mark_processed(checked, member) == checked \cup {member}

RECURSIVE Reverse(_)
Reverse(seq) ==
    IF seq = <<>> THEN <<>> ELSE Append(Reverse(Tail(seq)), Head(seq))

\* TripleStore.find_recent_statements: ORDER BY created_at DESC LIMIT; every
\* Statement node is matched, whatever edges point at it
find_recent_statements(statements, limit) ==
    LET newest == Reverse(statements)
    IN  SubSeq(newest, 1, IF Len(newest) < limit THEN Len(newest) ELSE limit)

\* MemoryService.get_recent_statements: the facade hands the call to the
\* store, as get_recent_observations does
get_recent_statements(statements, limit) ==
    find_recent_statements(statements, limit)

\* the keys of a dict filled with setdefault, in insertion order
RECURSIVE FirstSeen(_, _)
FirstSeen(keys, acc) ==
    IF keys = <<>> THEN acc
    ELSE FirstSeen(Tail(keys),
                   IF Head(keys) \in Range(acc) THEN acc
                   ELSE Append(acc, Head(keys)))

\* for i, s1 in enumerate(stmts): for s2 in stmts[i + 1:]
RECURSIVE PairsOf(_)
PairsOf(stmts) ==
    IF Len(stmts) < 2 THEN <<>>
    ELSE [k \in 1..(Len(stmts) - 1) |-> <<Head(stmts), stmts[k + 1]>>]
            \o PairsOf(Tail(stmts))

RECURSIVE Concat(_)
Concat(seqs) ==
    IF seqs = <<>> THEN <<>> ELSE Head(seqs) \o Concat(Tail(seqs))

\* the arguments of one flag_contradiction call; the reason string is kept
\* as the values it is formatted from
Flag(s1, s2, kind, subject, name, left, right) ==
    [stmt_id_1 |-> s1.id, stmt_id_2 |-> s2.id,
     reason |-> [kind |-> kind, subject |-> subject, name |-> name,
                 left |-> left, right |-> right]]

\* _check_same_predicate without the idempotency check: the pairs it would
\* flag, in order
SamePredicatePairs(schema, subject, statements) ==
    LET predicates ==
            FirstSeen([i \in 1..Len(statements) |-> statements[i].predicate],
                      <<>>)
        ofPredicate(p) == SelectSeq(statements, LAMBDA s : s.predicate = p)
        flags(p) ==
            IF Len(ofPredicate(p)) < 2 THEN <<>>
            ELSE IF schema.loaded /\ is_multi_valued(schema, p) THEN <<>>
            ELSE LET differ ==
                         SelectSeq(PairsOf(ofPredicate(p)),
                                   LAMBDA pr :
                                       pr[1].object_name # pr[2].object_name)
                 IN  [k \in 1..Len(differ) |->
                         Flag(differ[k][1], differ[k][2], "same_predicate",
                              subject, p, differ[k][1].object_name,
                              differ[k][2].object_name)]
    IN  Concat([i \in 1..Len(predicates) |-> flags(predicates[i])])

\* _check_exclusivity_groups without the idempotency check
ExclusivityPairs(schema, subject, statements) ==
    LET grouped ==
            SelectSeq(statements,
                      LAMBDA s :
                          get_exclusivity_group(schema, s.predicate) # None)
        groups ==
            FirstSeen([i \in 1..Len(grouped) |->
                          get_exclusivity_group(schema,
                                                grouped[i].predicate)],
                      <<>>)
        ofGroup(g) ==
            SelectSeq(grouped,
                      LAMBDA s :
                          get_exclusivity_group(schema, s.predicate) = g)
        flags(g) ==
            LET pairs == PairsOf(ofGroup(g))
            IN  [k \in 1..Len(pairs) |->
                    Flag(pairs[k][1], pairs[k][2], "exclusivity", None, g,
                         pairs[k][1].predicate, pairs[k][2].predicate)]
    IN  Concat([i \in 1..Len(groups) |-> flags(groups[i])])

\* process(): the pairs of every subject in turn, same-predicate pairs
\* before exclusivity pairs
ProcessPairs(schema, statements) ==
    LET subjects ==
            FirstSeen([i \in 1..Len(statements) |->
                          statements[i].subject_name], <<>>)
        ofSubject(x) ==
            SelectSeq(statements, LAMBDA s : s.subject_name = x)
        flags(x) ==
            SamePredicatePairs(schema, x, ofSubject(x))
               \o (IF schema.loaded
                   THEN ExclusivityPairs(schema, x, ofSubject(x))
                   ELSE <<>>)
    IN  Concat([i \in 1..Len(subjects) |-> flags(subjects[i])])

\* one flag_contradiction call and whether it returned
Call(flag, returned) ==
    [stmt_id_1 |-> flag.stmt_id_1, stmt_id_2 |-> flag.stmt_id_2,
     reason |-> flag.reason, returned |-> returned]

\* process() over the pairs: a pair found processed is skipped, the others
\* go to flag_contradiction and are marked processed when it returns.  The
\* call number okLeft + 1 raises, which ends process().
RECURSIVE Flagging(_, _, _, _, _)
Flagging(pairs, has_state, checked, calls, okLeft) ==
    IF pairs = <<>>
    THEN [calls |-> calls, checked |-> checked, completed |-> TRUE]
    ELSE LET flag == Head(pairs)
             key == PairKey(flag.stmt_id_1, flag.stmt_id_2)
         IN  IF has_state /\ is_processed(checked, key)
             THEN Flagging(Tail(pairs), has_state, checked, calls, okLeft)
             ELSE IF okLeft = 0
             THEN [calls |-> Append(calls, Call(flag, FALSE)),
                   checked |-> checked, completed |-> FALSE]
             ELSE Flagging(Tail(pairs), has_state,
                           IF has_state THEN mark_processed(checked, key)
                           ELSE checked,
                           Append(calls, Call(flag, TRUE)), okLeft - 1)

\* what an operation on the validator looks like in v_last
ValidatorOp(op, calls, completed, event_type, schema) ==
    [op |-> op, calls |-> calls, completed |-> completed,
     event_type |-> event_type, schema |-> schema]

InitValidator ==
    /\ v_statements = <<>>
    /\ v_superseded = {}
    /\ v_schema \in ValidatorSchemas
    /\ v_has_state \in BOOLEAN
    /\ v_checked = {}
    /\ v_event_received = FALSE
    /\ v_flags = <<>>
    /\ v_ticks = 0
    /\ v_last = ValidatorOp("init", <<>>, TRUE, None, NoSchema)

IdleValidator ==
    /\ v_statements = <<>>
    /\ v_superseded = {}
    /\ v_schema = NoSchema
    /\ v_has_state = FALSE
    /\ v_checked = {}
    /\ v_event_received = FALSE
    /\ v_flags = <<>>
    /\ v_ticks = 0
    /\ v_last = ValidatorOp("init", <<>>, TRUE, None, NoSchema)

\* MemoryService.claim: a Statement node is created; when the parsed claim
\* describes a statement it supersedes (here the newest one, which is about
\* the same subject and predicate), a SUPERSEDES edge points at that one
V_Claim(subject, predicate, object, superseded) ==
    /\ Len(v_statements) < MaxStatements
    /\ superseded \in {0, Len(v_statements)}
    /\ superseded # 0 =>
          /\ v_statements[superseded].subject_name = subject
          /\ v_statements[superseded].predicate = predicate
    /\ v_statements' =
          Append(v_statements,
                 Statement(Len(v_statements) + 1, subject, predicate, object))
    /\ v_superseded' =
          IF superseded = 0 THEN v_superseded
          ELSE v_superseded \cup {superseded}
    /\ v_last' = ValidatorOp("claim", <<>>, TRUE, None, NoSchema)
    /\ UNCHANGED <<v_schema, v_has_state, v_checked, v_event_received,
                   v_flags, v_ticks>>
    /\ UNCHANGED notValidator

\* ValidatorAgent.process; _tick clears the wake-up flag before it
V_Process(okLeft) ==
    /\ v_ticks < MaxProcess
    /\ LET statements == get_recent_statements(v_statements, RECENT_LIMIT)
           pairs == ProcessPairs(v_schema, statements)
           done == Flagging(pairs, v_has_state, v_checked, <<>>, okLeft)
       IN  /\ okLeft \in 0..Len(pairs)
           /\ v_checked' = done.checked
           /\ v_flags' = v_flags \o done.calls
           /\ v_last' = ValidatorOp("process", done.calls, done.completed,
                                    None, NoSchema)
    /\ v_ticks' = v_ticks + 1
    /\ v_event_received' = FALSE
    /\ UNCHANGED <<v_statements, v_superseded, v_schema, v_has_state>>
    /\ UNCHANGED notValidator

\* the listener the node calls with every event: the wake-up flag is set
\* iff the event type is one the agent declares; ValidatorAgent has no
\* handler of its own.  Only a schema_updated event carries a schema.
V_OnNetworkEvent(event_type, schema) ==
    /\ event_type # "schema_updated" => schema = NoSchema
    /\ v_event_received' = (v_event_received \/ event_type \in event_types)
    /\ v_last' = ValidatorOp("event", <<>>, TRUE, event_type, schema)
    /\ UNCHANGED <<v_statements, v_superseded, v_schema, v_has_state,
                   v_checked, v_flags, v_ticks>>
    /\ UNCHANGED notValidator

\* the most flag_contradiction calls one process() can make: every pair of
\* statements once in each of the two checks
MaxPairs == MaxStatements * (MaxStatements - 1)

\* the events the node hands to its listeners
EventTypes == {"claim", "schema_updated"}

\* the payloads of the schema_updated events: with a schema, or without
EventSchemas == {NoSchema, from_dict(OverlapData)}

NextValidator ==
    \/ \E triple \in Triples, superseded \in 0..MaxStatements :
          V_Claim(triple[1], triple[2], triple[3], superseded)
    \/ \E okLeft \in 0..MaxPairs : V_Process(okLeft)

\* a validator whose store holds one of a few lists of statements, the
\* events that reach it and its ticks
ReloadStatements ==
    {<<>>,
     <<Statement(1, "alice", "works_at", "x"),
       Statement(2, "alice", "works_at", "y")>>,
     <<Statement(1, "alice", "unemployed", "x"),
       Statement(2, "alice", "works_at", "x")>>}

InitReload ==
    /\ v_statements \in ReloadStatements
    /\ v_superseded = {}
    /\ v_schema \in ValidatorSchemas
    /\ v_has_state \in BOOLEAN
    /\ v_checked = {}
    /\ v_event_received = FALSE
    /\ v_flags = <<>>
    /\ v_ticks = 0
    /\ v_last = ValidatorOp("init", <<>>, TRUE, None, NoSchema)

NextReload ==
    \/ \E event_type \in EventTypes, schema \in EventSchemas :
          V_OnNetworkEvent(event_type, schema)
    \/ \E okLeft \in 0..MaxPairs : V_Process(okLeft)

\* ------------------------------------------------------------------------
\* schema/store.py: SchemaStore and its file
\* ------------------------------------------------------------------------

\* self._data = {}: no key is set, .get() yields the defaults
EmptyData == SchemaData(0, None, 0, << >>, << >>, <<>>)

\* the schema file: absent, truncated (opened for writing, nothing written
\* yet), partial (a part of the document written, which does not parse),
\* or holding a complete document
File(state, data) == [state |-> state, data |-> data]

FileAbsent == File("absent", EmptyData)

\* what a process that dies in _persist leaves of the file it writes data
\* to: open(path, "w") has emptied it, and none, a part or all of the
\* document has reached it
CrashStates == {"truncated", "partial", "complete"}

FileAfterCrash(left, data) ==
    IF left = "complete" THEN File("complete", data)
    ELSE File(left, EmptyData)

\* yaml.dump(self._data, f) once the file is closed
yaml_dump(data) == File("complete", data)

\* _read_yaml: yaml.safe_load(f) or {}; an empty file loads as None
read_yaml(file) == IF file.state = "complete" THEN file.data ELSE EmptyData

\* dict.update / setdefault on a dict of fields
MergeFields(old, new) ==
    [f \in DOMAIN old \cup DOMAIN new |->
        IF f \in DOMAIN new THEN new[f] ELSE old[f]]

\* the bundled bootstrap document
BootstrapData == EmploymentData

\* a faulty seeding that adds no provenance to predicates and groups
SeededUntagged(bootstrap, at) ==
    SchemaData(0, "bootstrap", at, bootstrap.defaults,
               bootstrap.predicates, bootstrap.exclusivity_groups)

\* _seed_from_bootstrap: provenance fields are added where missing,
\* schema_version 0, updated_by bootstrap
Seeded(bootstrap, at) ==
    SchemaData(
        0, "bootstrap", at, bootstrap.defaults,
        [n \in DOMAIN bootstrap.predicates |->
            MergeFields([origin |-> "bootstrap", reasoning |-> None,
                         last_reviewed |-> None],
                        bootstrap.predicates[n])],
        [g \in 1..Len(bootstrap.exclusivity_groups) |->
            MergeFields([origin |-> "bootstrap", reasoning |-> None],
                        bootstrap.exclusivity_groups[g])])

\* a faulty merge that replaces the props of a touched predicate
ReplacedPredicates(existing, changed) ==
    LET touched == {Canonical(n) : n \in DOMAIN changed}
        propsOf(c) == changed[CHOOSE n \in DOMAIN changed : Canonical(n) = c]
    IN  [c \in DOMAIN existing \cup touched |->
            IF c \in touched THEN propsOf(c) ELSE existing[c]]

\* update: the predicates after changes["predicates"] was merged in
MergedPredicates(existing, changed) ==
    LET touched == {Canonical(n) : n \in DOMAIN changed}
        propsOf(c) == changed[CHOOSE n \in DOMAIN changed : Canonical(n) = c]
    IN  [c \in DOMAIN existing \cup touched |->
            IF c \notin touched THEN existing[c]
            ELSE IF c \in DOMAIN existing
            THEN MergeFields(existing[c], propsOf(c))
            ELSE propsOf(c)]

\* update: the groups after changes["exclusivity_groups"] was merged in; a
\* group of a known name is replaced where it stands, a new one is appended
RECURSIVE MergedGroups(_, _)
MergedGroups(existing, changed) ==
    IF changed = <<>> THEN existing
    ELSE LET g == Head(changed)
             at == {i \in 1..Len(existing) : existing[i].name = g.name}
         IN  MergedGroups(
                 IF at = {} THEN Append(existing, g)
                 ELSE [i \in 1..Len(existing) |->
                          IF i \in at THEN g ELSE existing[i]],
                 Tail(changed))

\* changes.get(key) of the three keys update looks at
ChangedPredicates(changes) ==
    IF "predicates" \in DOMAIN changes THEN changes.predicates ELSE << >>

ChangedGroups(changes) ==
    IF "exclusivity_groups" \in DOMAIN changes
    THEN changes.exclusivity_groups ELSE <<>>

\* SchemaStore.update up to the rebuild: the new self._data
Updated(data, changes, source, at) ==
    SchemaData(
        data.schema_version + 1, source, at,
        IF "defaults" \in DOMAIN changes THEN changes.defaults
        ELSE data.defaults,
        MergedPredicates(data.predicates, ChangedPredicates(changes)),
        MergedGroups(data.exclusivity_groups, ChangedGroups(changes)))

\* what an operation on the store looks like in s_last
StoreOp(op, before, changes, source) ==
    [op |-> op, before |-> before, changes |-> changes, source |-> source]

\* datetime.now() as a logical clock: the number of writes so far
WriteTime == Len(s_persisted) + 1

InitSchema ==
    /\ s_data = EmptyData
    /\ s_schema = NoSchema
    /\ s_loaded = FALSE
    /\ s_file = FileAbsent
    /\ s_persisted = <<>>
    /\ s_last = StoreOp("init", EmptyData, << >>, None)

IdleSchema == InitSchema

\* load(): the file is read when it exists; when there is none, or reading
\* it raises, the bootstrap document is seeded and persisted
S_Load ==
    /\ ~s_loaded
    /\ IF s_file.state \in {"truncated", "complete"}
       THEN /\ s_data' = read_yaml(s_file)
            /\ UNCHANGED <<s_file, s_persisted>>
       ELSE /\ s_data' = Seeded(BootstrapData, WriteTime)
            /\ s_file' = yaml_dump(s_data')
            /\ s_persisted' = Append(s_persisted, s_data')
    /\ s_schema' = from_dict(s_data')
    /\ s_loaded' = TRUE
    /\ s_last' = StoreOp("load", s_data, << >>, None)
    /\ UNCHANGED notSchema

\* update(changes, source)
S_Update(changes, source) ==
    /\ s_loaded
    /\ Len(s_persisted) < MaxWrites
    /\ s_data' = Updated(s_data, changes, source, WriteTime)
    /\ s_schema' = from_dict(s_data')
    /\ s_file' = yaml_dump(s_data')
    /\ s_persisted' = Append(s_persisted, s_data')
    /\ s_last' = StoreOp("update", s_data, changes, source)
    /\ UNCHANGED s_loaded
    /\ UNCHANGED notSchema

\* the process dies in _persist, after open(path, "w") has emptied the
\* file: in update ...
S_CrashInUpdate(changes, source, left) ==
    /\ s_loaded
    /\ Len(s_persisted) < MaxWrites
    /\ s_persisted' =
          Append(s_persisted, Updated(s_data, changes, source, WriteTime))
    /\ s_file' =
          FileAfterCrash(left, Updated(s_data, changes, source, WriteTime))
    /\ s_data' = EmptyData
    /\ s_schema' = NoSchema
    /\ s_loaded' = FALSE
    /\ s_last' = StoreOp("crash", s_data, changes, source)
    /\ UNCHANGED notSchema

\* ... and in the seeding of load()
S_CrashInSeed(left) ==
    /\ ~s_loaded
    /\ s_file.state \in {"absent", "partial"}
    /\ Len(s_persisted) < MaxWrites
    /\ s_persisted' = Append(s_persisted, Seeded(BootstrapData, WriteTime))
    /\ s_file' = FileAfterCrash(left, Seeded(BootstrapData, WriteTime))
    /\ s_last' = StoreOp("crash", s_data, << >>, None)
    /\ UNCHANGED <<s_data, s_schema, s_loaded>>
    /\ UNCHANGED notSchema

\* the process stops between two operations and is started again
S_Restart ==
    /\ s_loaded
    /\ s_data' = EmptyData
    /\ s_schema' = NoSchema
    /\ s_loaded' = FALSE
    /\ s_last' = StoreOp("restart", s_data, << >>, None)
    /\ UNCHANGED <<s_file, s_persisted>>
    /\ UNCHANGED notSchema

\* the changes callers pass to update: a new predicate under a name that is
\* not canonical, one field of a known predicate, a known group, a new
\* group, the defaults, several keys at once, nothing
ChangeSets ==
    {[predicates |-> [n \in {"Mentors"} |-> [cardinality |-> "multi"]]],
     [predicates |-> [n \in {"works_at"} |-> [cardinality |-> "single"]]],
     [exclusivity_groups |->
         <<[name |-> "employment", predicates |-> {"works_at", "retired"}]>>],
     [exclusivity_groups |-> <<IdleGroup>>],
     [defaults |-> [cardinality |-> "multi"]],
     [predicates |->
         [n \in {"unemployed"} |-> [temporality |-> "permanent"]],
      defaults |-> [cardinality |-> "multi", temporality |-> "temporal"]],
     << >>}

Sources == {"admin", "schema_agent"}

NextSchema ==
    \/ S_Load
    \/ \E changes \in ChangeSets, source \in Sources :
          S_Update(changes, source)
    \/ \E changes \in ChangeSets, source \in Sources, left \in CrashStates :
          S_CrashInUpdate(changes, source, left)
    \/ \E left \in CrashStates : S_CrashInSeed(left)
    \/ S_Restart

\* ------------------------------------------------------------------------
\* agents/base.py, agents/inference.py: the inference agent and its loop
\* ------------------------------------------------------------------------

\* InferenceAgent.event_types
inference_event_types == {"observe"}

\* the limit process() passes to get_recent_observations
OBS_LIMIT == 10

\* the observations of the store: written before the agent was constructed
\* (timestamp < _inference_started_at), without raw_content, with a content
\* memory.infer finds nothing in, with a content it returns a claim text for
ObservationKinds == {"stale", "empty", "quiet", "fact"}

\* TripleStore.find_recent_observations: ORDER BY created_at DESC LIMIT
find_recent_observations(obs, limit) ==
    [k \in 1..(IF Len(obs) < limit THEN Len(obs) ELSE limit) |->
        Len(obs) - k + 1]

\* a faulty listener that never sets the flag
WakesNever(event_type) == FALSE

\* the listener the node calls with every event sets the wake-up flag iff
\* the event type is one the agent declares
Wakes(event_type) == event_type \in inference_event_types

\* InferenceAgent.process, the loop over the fetched observations.  raised
\* holds the observations whose memory.infer call raises; try_acquire of
\* the agent's own LocalAgentState never refuses its one source_id.
RECURSIVE Infer(_, _, _)
Infer(observations, raised, acc) ==
    IF observations = <<>> THEN acc
    ELSE LET obs_id == Head(observations)
             rest == Tail(observations)
             marked == [acc EXCEPT !.processed =
                           mark_processed(acc.processed, obs_id)]
         IN  IF a_obs[obs_id] = "stale" THEN Infer(rest, raised, marked)
             ELSE IF is_processed(acc.processed, obs_id)
             THEN Infer(rest, raised, acc)
             ELSE IF a_obs[obs_id] = "empty" THEN Infer(rest, raised, marked)
             ELSE Infer(rest, raised,
                     [marked EXCEPT
                        !.infer_calls[obs_id] = @ + 1,
                        !.claims =
                           IF a_obs[obs_id] = "fact" /\ obs_id \notin raised
                           THEN Append(@, obs_id) ELSE @])

\* a faulty handler that does not count the failure
ErrorCountKept(count, failed) == count

\* _tick: except Exception: self._error_count += 1
ErrorCount(count, failed) == IF failed THEN count + 1 ELSE count

\* what a call of _tick looks like in a_last
WorkerOp(op, phase, failed) ==
    [op |-> op, phase |-> phase, failed |-> failed,
     errors |-> a_error_count]

InitWorker ==
    /\ a_pc = "init"
    /\ a_running = FALSE
    /\ a_attempts = 0
    /\ a_startup_raised = FALSE
    /\ a_error_count = 0
    /\ a_event_received = FALSE
    /\ a_pending = FALSE
    /\ a_obs \in {<<>>, <<"stale">>}
    /\ a_fetched = <<>>
    /\ a_processed = {}
    /\ a_infer_calls = [i \in 1..Len(a_obs) |-> 0]
    /\ a_claimed = {}
    /\ a_last = [op |-> "init", phase |-> "init", failed |-> FALSE,
                 errors |-> 0]

IdleWorker ==
    /\ a_pc = "init"
    /\ a_running = FALSE
    /\ a_attempts = 0
    /\ a_startup_raised = FALSE
    /\ a_error_count = 0
    /\ a_event_received = FALSE
    /\ a_pending = FALSE
    /\ a_obs = <<>>
    /\ a_fetched = <<>>
    /\ a_processed = {}
    /\ a_infer_calls = <<>>
    /\ a_claimed = {}
    /\ a_last = [op |-> "init", phase |-> "init", failed |-> FALSE,
                 errors |-> 0]

\* _tick up to the first await of process(): get_recent_observations
\* returns, or it raises and the handler of _tick counts the failure
TickBegin(phase, fetched_ok) ==
    /\ ~fetched_ok => a_error_count < MaxErrors
    /\ a_pending' = FALSE
    /\ IF fetched_ok
       THEN /\ a_fetched' = find_recent_observations(a_obs, OBS_LIMIT)
            /\ a_pc' = IF phase = "startup" THEN "startup_process"
                       ELSE "process"
       ELSE /\ a_fetched' = <<>>
            /\ a_pc' = "wait"
    /\ a_error_count' = ErrorCount(a_error_count, ~fetched_ok)
    /\ a_last' = WorkerOp("tick", phase, ~fetched_ok)

\* run() up to its first _tick
A_Run ==
    /\ a_pc = "init"
    /\ a_pc' = "startup"
    /\ a_running' = TRUE
    /\ UNCHANGED a_last
    /\ UNCHANGED <<a_attempts, a_startup_raised, a_error_count,
                   a_event_received, a_pending, a_obs, a_fetched,
                   a_processed, a_infer_calls, a_claimed>>
    /\ UNCHANGED notWorker

\* run(): an attempt of the startup loop.  _tick returns whether process()
\* raised or not, so the loop is left at its break
A_StartupTick(fetched_ok) ==
    /\ a_pc = "startup"
    /\ TickBegin("startup", fetched_ok)
    /\ a_attempts' = a_attempts + 1
    /\ a_startup_raised' = ~fetched_ok
    /\ UNCHANGED <<a_running, a_event_received, a_obs, a_processed,
                   a_infer_calls, a_claimed>>
    /\ UNCHANGED notWorker

\* the steady-state loop: the wait on the wake-up flag ends, the flag being
\* set or poll_interval over; the flag is cleared and _tick called
A_SteadyTick(woken_by, fetched_ok) ==
    /\ a_pc = "wait"
    /\ a_running
    /\ woken_by = "event" => a_event_received
    /\ a_event_received' = FALSE
    /\ TickBegin("steady", fetched_ok)
    /\ UNCHANGED <<a_running, a_attempts, a_startup_raised, a_obs,
                   a_processed, a_infer_calls, a_claimed>>
    /\ UNCHANGED notWorker

\* the rest of _tick: process() goes through what it fetched and returns
\* the claims, and _tick submits them one by one; ok_left is the number of
\* memory.claim calls that return before one raises
A_Process(raised, ok_left) ==
    /\ a_pc \in {"startup_process", "process"}
    /\ raised \subseteq Range(a_fetched)
    /\ ok_left <= Len(a_fetched)
    /\ LET done == Infer(a_fetched, raised,
                         [processed |-> a_processed,
                          infer_calls |-> a_infer_calls, claims |-> <<>>])
           failed == Len(done.claims) > ok_left
       IN  /\ failed => a_error_count < MaxErrors
           /\ \A i \in DOMAIN a_obs : done.infer_calls[i] <= MaxInferCalls
           /\ a_processed' = done.processed
           /\ a_infer_calls' = done.infer_calls
           /\ a_claimed' =
                 a_claimed \cup
                    {done.claims[k] :
                        k \in {j \in DOMAIN done.claims : j <= ok_left}}
           /\ a_error_count' = ErrorCount(a_error_count, failed)
           /\ a_last' = WorkerOp("tick",
                                 IF a_pc = "process" THEN "steady"
                                 ELSE "startup", failed)
    /\ a_pc' = "wait"
    /\ a_fetched' = <<>>
    /\ UNCHANGED <<a_running, a_attempts, a_startup_raised,
                   a_event_received, a_pending, a_obs>>
    /\ UNCHANGED notWorker

\* the node calls the agent's listener with an event
A_OnNetworkEvent(event_type) ==
    /\ a_event_received' = (a_event_received \/ Wakes(event_type))
    /\ a_pending' = (a_pending \/ event_type \in inference_event_types)
    /\ UNCHANGED a_last
    /\ UNCHANGED <<a_pc, a_running, a_attempts, a_startup_raised,
                   a_error_count, a_obs, a_fetched, a_processed,
                   a_infer_calls, a_claimed>>
    /\ UNCHANGED notWorker

\* an observation is written to the store after the agent was constructed
A_Observe(kind) ==
    /\ Len(a_obs) < MaxObs
    /\ kind # "stale"
    /\ a_obs' = Append(a_obs, kind)
    /\ a_infer_calls' = Append(a_infer_calls, 0)
    /\ UNCHANGED a_last
    /\ UNCHANGED <<a_pc, a_running, a_attempts, a_startup_raised,
                   a_error_count, a_event_received, a_pending, a_fetched,
                   a_processed, a_claimed>>
    /\ UNCHANGED notWorker

\* stop()
A_Stop ==
    /\ a_running
    /\ a_running' = FALSE
    /\ UNCHANGED a_last
    /\ UNCHANGED <<a_pc, a_attempts, a_startup_raised, a_error_count,
                   a_event_received, a_pending, a_obs, a_fetched,
                   a_processed, a_infer_calls, a_claimed>>
    /\ UNCHANGED notWorker

\* the loop condition fails and run() returns
A_Return ==
    /\ a_pc = "wait"
    /\ ~a_running
    /\ a_pc' = "returned"
    /\ UNCHANGED a_last
    /\ UNCHANGED <<a_running, a_attempts, a_startup_raised, a_error_count,
                   a_event_received, a_pending, a_obs, a_fetched,
                   a_processed, a_infer_calls, a_claimed>>
    /\ UNCHANGED notWorker

\* the events the node hands to its listeners
WorkerEventTypes == {"observe", "claim"}

NextWorker ==
    \/ A_Run
    \/ \E fetched_ok \in BOOLEAN : A_StartupTick(fetched_ok)
    \/ \E woken_by \in {"event", "timeout"}, fetched_ok \in BOOLEAN :
          A_SteadyTick(woken_by, fetched_ok)
    \/ \E raised \in SUBSET (1..MaxObs), ok_left \in 0..MaxObs :
          A_Process(raised, ok_left)
    \/ \E event_type \in WorkerEventTypes : A_OnNetworkEvent(event_type)
    \/ \E kind \in ObservationKinds : A_Observe(kind)
    \/ A_Stop
    \/ A_Return

\* ------------------------------------------------------------------------
\* store.py, interfaces.py: the graph of the store and MemoryService.observe
\* ------------------------------------------------------------------------

\* the ids uuid4 hands out, per label
StatementIds == {"s1", "s2", "s3"}
ObservationIds == {"o1"}

\* what llm.extract_observation makes of a text: nothing, an entity, an
\* entity and a triple
Extraction(subject, predicate, object) ==
    [subject |-> subject, predicate |-> predicate, object |-> object]

ObservationData(entities, extractions) ==
    [entities |-> entities, extractions |-> extractions]

ObservationDatas ==
    {ObservationData({}, {}),
     ObservationData({"alice"}, {}),
     ObservationData({"alice"}, {Extraction("alice", "works at", "acme")})}

\* _normalize_predicate: strip, upper case, "_" for " " and "-"
RelTypeOf(predicate) ==
    CASE predicate = "works at" -> "WORKS_AT"
      [] predicate = "works-at" -> "WORKS_AT"
      [] OTHER -> predicate

\* a faulty filter that takes no statement for superseded
SupersededNever(s) == FALSE

\* NOT EXISTS { MATCH (:Statement)-[:SUPERSEDES]->(s) }, negated
Superseded(s) ==
    \E e \in g_edges :
        e[1] \in g_statements /\ e[2] = "SUPERSEDES" /\ e[3] = s

\* TripleStore.find_statements_about, as a set
find_statements_about(concept_id) ==
    {s \in g_statements :
        /\ concept_id \in g_concepts
        /\ \E e \in g_edges :
              /\ e[1] = s
              /\ e[2] \in {"ABOUT_SUBJECT", "ABOUT_OBJECT"}
              /\ e[3] = concept_id
        /\ ~Superseded(s)}

\* TripleStore.find_unresolved_contradictions, as a set
find_unresolved_contradictions ==
    {pair \in g_statements \X g_statements :
        /\ <<pair[1], "CONTRADICTS", pair[2]>> \in g_edges
        /\ ~Superseded(pair[1])
        /\ ~Superseded(pair[2])}

InitStore ==
    /\ g_concepts = {}
    /\ g_observations = {}
    /\ g_statements = {}
    /\ g_edges = {}

IdleStore == InitStore

\* TripleStore.create_concept
G_CreateConcept(node_id) ==
    /\ node_id \notin g_concepts
    /\ g_concepts' = g_concepts \cup {node_id}
    /\ UNCHANGED <<g_observations, g_statements, g_edges>>
    /\ UNCHANGED notStore

\* TripleStore.create_statement
G_CreateStatement(node_id) ==
    /\ node_id \notin g_statements
    /\ g_statements' = g_statements \cup {node_id}
    /\ UNCHANGED <<g_concepts, g_observations, g_edges>>
    /\ UNCHANGED notStore

\* TripleStore.create_relationship: MATCH (a {id}), (b {id}) CREATE; with
\* an end that does not exist nothing is created
G_CreateRelationship(from_id, rel_type, to_id) ==
    /\ Cardinality(g_edges) < MaxEdges
    /\ {from_id, to_id} \subseteq
          g_concepts \cup g_observations \cup g_statements
    /\ g_edges' = g_edges \cup {<<from_id, rel_type, to_id>>}
    /\ UNCHANGED <<g_concepts, g_observations, g_statements>>
    /\ UNCHANGED notStore

\* MemoryService.observe: the observation node and its entities, and for
\* every extracted triple a claim node with its edges
G_Observe(obs_id, extraction) ==
    /\ obs_id \notin g_observations
    /\ Cardinality(StatementIds \ g_statements) >=
          Cardinality(extraction.extractions)
    /\ LET claim_id == CHOOSE id \in StatementIds : id \notin g_statements
       IN  /\ g_observations' = g_observations \cup {obs_id}
           /\ g_concepts' =
                 g_concepts \cup extraction.entities
                    \cup {ext.subject : ext \in extraction.extractions}
                    \cup {ext.object : ext \in extraction.extractions}
           /\ g_statements' =
                 g_statements \cup {claim_id : ext \in extraction.extractions}
           /\ g_edges' =
                 g_edges
                    \cup {<<obs_id, "SUBJECT", name>> :
                             name \in extraction.entities}
                    \cup {<<claim_id, "BASIS", obs_id>> :
                             ext \in extraction.extractions}
                    \cup {<<claim_id, "SUBJECT", ext.subject>> :
                             ext \in extraction.extractions}
                    \cup {<<ext.subject, RelTypeOf(ext.predicate),
                            ext.object>> : ext \in extraction.extractions}
    /\ UNCHANGED notStore

\* the relationships callers create: a statement is about a concept, and
\* it supersedes or contradicts a node that was there before it
Relationships ==
    {<<s, "ABOUT_SUBJECT", "alice">> : s \in StatementIds}
       \cup {<<"s1", "ABOUT_OBJECT", "alice">>,
             <<"s1", "SUPERSEDES", "o1">>}
       \cup {<<e[1], t, e[2]>> :
                e \in {p \in StatementIds \X StatementIds : p[1] # p[2]},
                t \in {"SUPERSEDES", "CONTRADICTS"}}

NextStore ==
    \/ \E node_id \in {"alice"} : G_CreateConcept(node_id)
    \/ \E node_id \in StatementIds : G_CreateStatement(node_id)
    \/ \E r \in Relationships : G_CreateRelationship(r[1], r[2], r[3])
    \/ \E obs_id \in ObservationIds, extraction \in ObservationDatas :
          G_Observe(obs_id, extraction)

\* ------------------------------------------------------------------------
\* transport.py: the stream tables and the sends over them (SpecStreams)
\*
\* One table is followed at a time: TransportClient._outbound_ws when
\* x_kind = "out", TransportServer._inbound_ws when x_kind = "in".  One
\* task sends; every await of a send is a point where the other tasks of
\* the event loop run, and they connect, close and drop streams of the
\* same table.  Nothing in transport.py locks either table.
\* ------------------------------------------------------------------------

\* dict.pop(key, None), on the keys of a table
Popped(ws, key) == SelectSeq(ws, LAMBDA k : k # key)

\* dict[key] = value: a new key goes last, a key already there stays put
Stored(ws, key) == IF key \in Range(ws) THEN ws ELSE Append(ws, key)

RECURSIVE PoppedAll(_, _)
\* for key in dead: table.pop(key, None)
PoppedAll(ws, dead) ==
    IF dead = <<>> THEN ws ELSE PoppedAll(Popped(ws, Head(dead)), Tail(dead))

NoSend ==
    [op |-> "none", peer |-> "none", raised |-> FALSE, sent |-> 0,
     failed |-> {}, after |-> {}]

\* what a send call left behind when it ended: the exception it raised to
\* its caller if any, the number of sends that went through, the keys
\* whose send failed and the keys of the table at that moment
Ended(op, peer, raised, sent, failed, ws) ==
    [op |-> op, peer |-> peer, raised |-> raised, sent |-> sent,
     failed |-> failed, after |-> Range(ws)]

InitStreams ==
    /\ x_kind \in {"out", "in"}
    /\ x_ws = <<>>
    /\ x_closed = {}
    /\ x_pc = "idle"
    /\ x_peer = "none"
    /\ x_todo = <<>>
    /\ x_used = 0
    /\ x_dead = <<>>
    /\ x_count = 0
    /\ x_last = NoSend

IdleStreams ==
    /\ x_kind = "out"
    /\ x_ws = <<>>
    /\ x_closed = {}
    /\ x_pc = "idle"
    /\ x_peer = "none"
    /\ x_todo = <<>>
    /\ x_used = 0
    /\ x_dead = <<>>
    /\ x_count = 0
    /\ x_last = NoSend

\* ws_connect stores a stream under a key the table lacks; _handle_ws
\* stores the stream an envelope came in on under its sender, whether or
\* not the key is there.  A dict iterator that is running comes to a key
\* added behind it.
X_Connect(p) ==
    /\ x_kind = "out" => p \notin Range(x_ws)
    /\ x_pc = "broadcast" =>
           Len(x_todo) + x_count + Len(x_dead) < MaxSends
    /\ x_ws' = Stored(x_ws, p)
    /\ x_closed' = x_closed \ {p}
    /\ x_todo' = IF x_pc = "broadcast" /\ p \notin Range(x_ws)
                     THEN Append(x_todo, p)
                     ELSE x_todo
    /\ UNCHANGED <<x_kind, x_pc, x_peer, x_used, x_dead, x_count, x_last>>
    /\ UNCHANGED notStreams

\* close_peer, the finally of _ws_read_loop and the except clauses of
\* _handle_ws pop the key
X_Close(p) ==
    /\ p \in Range(x_ws)
    /\ x_ws' = Popped(x_ws, p)
    /\ x_closed' = x_closed \ {p}
    /\ x_todo' = Popped(x_todo, p)
    /\ UNCHANGED <<x_kind, x_pc, x_peer, x_used, x_dead, x_count, x_last>>
    /\ UNCHANGED notStreams

\* the connection under a stream is lost while its key is still in the
\* table: client_state leaves CONNECTED and a send on it raises
X_Drop(p) ==
    /\ p \in Range(x_ws) \ x_closed
    /\ x_closed' = x_closed \cup {p}
    /\ UNCHANGED <<x_kind, x_ws, x_pc, x_peer, x_todo, x_used, x_dead,
                   x_count, x_last>>
    /\ UNCHANGED notStreams

\* ws_send and send_to_inbound up to their await: no stream under the
\* key, or an inbound stream that is not CONNECTED, returns False
X_SendBegin(p) ==
    /\ x_pc = "idle"
    /\ IF p \notin Range(x_ws) \/ (x_kind = "in" /\ p \in x_closed)
           THEN /\ x_last' = Ended("send", p, FALSE, 0, {}, x_ws)
                /\ UNCHANGED <<x_pc, x_peer>>
           ELSE /\ x_pc' = "send"
                /\ x_peer' = p
                /\ UNCHANGED x_last
    /\ UNCHANGED <<x_kind, x_ws, x_closed, x_todo, x_used, x_dead, x_count>>
    /\ UNCHANGED notStreams

\* ws_send and send_to_inbound from their await on: the except clause
\* pops the key
X_SendResume(ok) ==
    /\ x_pc = "send"
    /\ x_peer \in x_closed => ~ok
    /\ x_ws' = IF ok THEN x_ws ELSE Popped(x_ws, x_peer)
    /\ x_closed' = IF ok THEN x_closed ELSE x_closed \ {x_peer}
    /\ x_last' = Ended("send", x_peer, FALSE, IF ok THEN 1 ELSE 0,
                       IF ok THEN {} ELSE {x_peer}, x_ws')
    /\ x_pc' = "idle"
    /\ x_peer' = "none"
    /\ UNCHANGED <<x_kind, x_todo, x_used, x_dead, x_count>>
    /\ UNCHANGED notStreams

RECURSIVE NotConnected(_, _)
\* broadcast_inbound: the keys at the head of todo whose stream is not
\* CONNECTED go to dead without a send
NotConnected(todo, closed) ==
    IF todo = <<>> \/ Head(todo) \notin closed
        THEN <<>>
        ELSE <<Head(todo)>> \o NotConnected(Tail(todo), closed)

\* The for loop of broadcast_ws and broadcast_inbound from one step of
\* the iterator over table.items() to the next await, or to the return.
\* The iterator raises RuntimeError when the len of the dict is not what
\* it was when the iteration began; the for statement stands outside the
\* try, so the exception leaves the broadcast and dead is never popped.
Advance(todo, dead, count) ==
    LET skipped == IF x_kind = "in" THEN NotConnected(todo, x_closed)
                                    ELSE <<>>
        rest    == SubSeq(todo, Len(skipped) + 1, Len(todo))
        dead2   == dead \o skipped
    IN  IF Len(x_ws) # x_used
            THEN /\ x_last' = Ended("broadcast", "none", TRUE, count,
                                    Range(dead), x_ws)
                 /\ x_pc' = "idle"
                 /\ x_peer' = "none"
                 /\ x_todo' = <<>>
                 /\ x_dead' = <<>>
                 /\ x_count' = 0
                 /\ UNCHANGED <<x_ws, x_closed>>
            ELSE IF rest = <<>>
            THEN /\ x_ws' = PoppedAll(x_ws, dead2)
                 /\ x_closed' = x_closed \ Range(dead2)
                 /\ x_last' = Ended("broadcast", "none", FALSE, count,
                                    Range(dead2), x_ws')
                 /\ x_pc' = "idle"
                 /\ x_peer' = "none"
                 /\ x_todo' = <<>>
                 /\ x_dead' = <<>>
                 /\ x_count' = 0
            ELSE /\ x_pc' = "broadcast"
                 /\ x_peer' = Head(rest)
                 /\ x_todo' = Tail(rest)
                 /\ x_dead' = dead2
                 /\ x_count' = count
                 /\ UNCHANGED <<x_ws, x_closed, x_last>>

\* broadcast_ws and broadcast_inbound up to their first await
X_BroadcastBegin ==
    /\ x_pc = "idle"
    /\ x_used' = Len(x_ws)
    /\ IF x_ws = <<>>
           THEN /\ x_last' = Ended("broadcast", "none", FALSE, 0, {}, x_ws)
                /\ UNCHANGED <<x_ws, x_closed, x_pc, x_peer, x_todo, x_dead,
                               x_count>>
           ELSE LET skipped == IF x_kind = "in"
                                   THEN NotConnected(x_ws, x_closed)
                                   ELSE <<>>
                    rest == SubSeq(x_ws, Len(skipped) + 1, Len(x_ws))
                IN  IF rest = <<>>
                        THEN /\ x_ws' = PoppedAll(x_ws, skipped)
                             /\ x_closed' = x_closed \ Range(skipped)
                             /\ x_last' = Ended("broadcast", "none", FALSE,
                                                0, Range(skipped), x_ws')
                             /\ UNCHANGED <<x_pc, x_peer, x_todo, x_dead,
                                            x_count>>
                        ELSE /\ x_pc' = "broadcast"
                             /\ x_peer' = Head(rest)
                             /\ x_todo' = Tail(rest)
                             /\ x_dead' = skipped
                             /\ x_count' = 0
                             /\ UNCHANGED <<x_ws, x_closed, x_last>>
    /\ UNCHANGED x_kind
    /\ UNCHANGED notStreams

\* broadcast_ws and broadcast_inbound from an await of a send on
X_BroadcastResume(ok) ==
    /\ x_pc = "broadcast"
    /\ x_peer \in x_closed => ~ok
    /\ Advance(x_todo,
               IF ok THEN x_dead ELSE Append(x_dead, x_peer),
               IF ok THEN x_count + 1 ELSE x_count)
    /\ UNCHANGED <<x_kind, x_used>>
    /\ UNCHANGED notStreams

NextStreams ==
    \/ \E p \in Peers : X_Connect(p)
    \/ \E p \in Peers : X_Close(p)
    \/ \E p \in Peers : X_Drop(p)
    \/ \E p \in Peers : X_SendBegin(p)
    \/ \E ok \in BOOLEAN : X_SendResume(ok)
    \/ X_BroadcastBegin
    \/ \E ok \in BOOLEAN : X_BroadcastResume(ok)

\* ------------------------------------------------------------------------
\* node.py: _handle_event and the event listeners of a node (SpecEvent)
\* ------------------------------------------------------------------------

RECURSIVE NotifyUntilRaise(_, _)
\* a faulty loop that a raising listener ends
NotifyUntilRaise(listeners, i) ==
    IF i > Len(listeners) THEN <<>>
    ELSE IF listeners[i] = "raises" THEN <<i>>
    ELSE <<i>> \o NotifyUntilRaise(listeners, i + 1)

RECURSIVE Notify(_, _)
\* _handle_event: the listeners called, from the i-th on; each call stands
\* in its own try, and what a listener raises is logged and dropped
Notify(listeners, i) ==
    IF i > Len(listeners) THEN <<>>
    ELSE <<i>> \o Notify(listeners, i + 1)

NoEvent == [listeners |-> <<>>, called |-> <<>>]

InitEvent ==
    /\ InitDispatch
    /\ ev_listeners = <<>>
    /\ ev_last = NoEvent

IdleListeners ==
    /\ ev_listeners = <<>>
    /\ ev_last = NoEvent

\* add_event_listener
E_AddListener(kind) ==
    /\ Len(ev_listeners) < MaxListeners
    /\ ev_listeners' = Append(ev_listeners, kind)
    /\ UNCHANGED ev_last
    /\ UNCHANGED <<routingVars, dispatchVars>>
    /\ UNCHANGED notEvent

\* handle_envelope for a first-seen event: _handle_event calls the
\* listeners, then forwards
E_RcvEvent(e, chan) ==
    /\ HandleEvent(e, chan)
    /\ ev_last' = [listeners |-> ev_listeners,
                   called |-> Notify(ev_listeners, 1)]
    /\ UNCHANGED ev_listeners
    /\ UNCHANGED notEvent

\* handle_envelope: a duplicate reaches no listener
E_RcvDuplicate(e, chan) ==
    /\ Arrives(chan)
    /\ Seen(seen_msgs, e.msg_id)
    /\ inbound_ws' = Registered(inbound_ws, chan, e)
    /\ last' = Handled(e, FALSE)
    /\ reply' = NoReply
    /\ outbox' = {}
    /\ UNCHANGED <<seen_msgs, dispatches, evictions>>
    /\ UNCHANGED routingVars
    /\ UNCHANGED <<memory_registered, next_local>>
    /\ UNCHANGED listenerVars
    /\ UNCHANGED notEvent

\* The events peers send in SpecEvent: one msg_id per originator, the
\* copies of an event differing in the ttl left.  A forwarder sends ttl
\* 1 or 2; a peer is free to originate an event with ttl 0.
EventEnvelopes ==
    {Envelope("event", 1, "p1", ttl, <<>>, None, "observe") : ttl \in 0..3}
    \cup {Envelope("event", 2, "p2", ttl, <<>>, None, "claim") :
             ttl \in 1..3}

EventChannels == {InStream("p1"), InStream("p2"), OutStream("p1"), Http}

NextEvent ==
    \/ \E kind \in {"returns", "raises"} : E_AddListener(kind)
    \/ \E e \in EventEnvelopes : \E c \in EventChannels : E_RcvEvent(e, c)
    \/ \E e \in EventEnvelopes : \E c \in EventChannels :
          E_RcvDuplicate(e, c)

\* ------------------------------------------------------------------------
\* node.py: the health check and _connect_to_neighbors over a table of up
\* to nine peers (SpecNeighbors)
\* ------------------------------------------------------------------------

\* The peers the node can know, in two insertion orders of its table.  With
\* the capabilities of the node ({cli}), p1 offers two capabilities the
\* node lacks, p2 one and the others none.
PoolOrders ==
    {<<"p1", "p2", "r1", "r2", "r3", "r4", "r5", "r6", "r7">>,
     <<"r1", "r2", "r3", "r4", "r5", "r6", "r7", "p2", "p1">>}

\* the time of the pass SpecNeighbors follows: an entry last seen at 0 is
\* past DEAD_TIMEOUT, one seen at PassTime is fresh
PassTime == 2 * TickStep

NoPass == [pruned |-> {}, kept |-> {}, candidates |-> {}, attempted |-> {}]

\* A node that has run for PassTime: it knows the first peers of a pool
\* order, at most MaxStale of them not heard of since time 0, and holds
\* outbound streams to a run of consecutive entries of its table, never
\* more than MAX_NEIGHBORS, and to all but MaxUnconnected of its peers at
\* least.
InitNeighbors ==
    /\ \E order \in PoolOrders, k \in 0..9 :
          \E stale \in SUBSET {order[i] : i \in 1..k} :
              /\ Cardinality(stale) <= MaxStale
              /\ routing =
                    [i \in 1..k |->
                        JoinState(order[i],
                                  IF order[i] \in stale THEN 0
                                  ELSE PassTime)]
    /\ \E a \in 1..9, b \in 0..9 :
          /\ b <= Len(routing)
          /\ outbound_ws = {routing[i].node_id : i \in a..b}
    /\ Cardinality(outbound_ws) <= MAX_NEIGHBORS
    /\ Cardinality(outbound_ws) >= Len(routing) - MaxUnconnected
    /\ url_overrides = NoOverrides
    /\ started = TRUE
    /\ now = PassTime
    /\ max_seq_seen = [p \in Peers |-> -1]
    /\ capabilities = {"cli"}
    /\ h_last = NoPass

IdleNeighbors == h_last = NoPass

\* one pass of _health_check_loop, with what it did: the neighbours it
\* pruned, the streams left after that, the alive peers without a stream
\* at that moment, and the peers ws_connect was called for
H_HealthCheck ==
    /\ HealthPass
    /\ LET gone == ToRemove(routing, now)
           kept == outbound_ws \ gone
           alive == get_alive_peers(routing', Self)
       IN  h_last' =
              [pruned |-> gone \cap outbound_ws,
               kept |-> kept,
               candidates |-> KnownIds(alive) \ kept,
               attempted |->
                   ConnectTargets(routing', Self, capabilities, kept)]
    /\ UNCHANGED notNeighbors

\* an outbound stream closes (_ws_read_loop ends, or a send fails)
H_StreamClosed(p) ==
    /\ p \in outbound_ws
    /\ outbound_ws' = outbound_ws \ {p}
    /\ UNCHANGED <<routing, url_overrides, started, now, max_seq_seen,
                   capabilities, h_last>>
    /\ UNCHANGED notNeighbors

NextNeighbors ==
    \/ H_HealthCheck
    \/ \E p \in {"p1", "r7"} : H_StreamClosed(p)

\* ------------------------------------------------------------------------
\* node.py: a pass of _health_check_loop with its awaits, while gossip and
\* joins are handled (SpecProbe)
\* ------------------------------------------------------------------------

\* the PeerState object an element of the list get_all_peers() returned
\* stands for: the entry of the table while update_peer has not replaced
\* it, and the object the list still holds after that
LiveLink(id) == [node_id |-> id, live |-> TRUE, copy |-> None]

ObjectOf(peers, link) ==
    IF link.live THEN GetPeer(peers, link.node_id) ELSE link.copy

\* ps.status = st on that object
StatusSet(peers, id, st) ==
    [k \in 1..Len(peers) |->
        IF peers[k].node_id = id THEN [peers[k] EXCEPT !.status = st]
        ELSE peers[k]]

\* _health_check_loop, the first loop from the i-th element of the list
\* on, up to the next await: the http_post of a probe, or close_peer
\* after the loop
RECURSIVE Scan(_, _, _, _, _)
Scan(peers, snap, i, t, to_remove) ==
    IF i > Len(snap)
    THEN [peers |-> peers, snap |-> snap, i |-> i, to_remove |-> to_remove,
          pc |-> "remove"]
    ELSE LET ps == ObjectOf(peers, snap[i])
             elapsed == t - ps.last_seen
             marked(st) ==
                 IF snap[i].live THEN StatusSet(peers, ps.node_id, st)
                 ELSE peers
             kept(st) ==
                 IF snap[i].live THEN snap
                 ELSE [snap EXCEPT ![i].copy = [ps EXCEPT !.status = st]]
         IN  IF elapsed > DEAD_TIMEOUT
             THEN Scan(marked("dead"), kept("dead"), i + 1, t,
                       Append(to_remove, ps.node_id))
             ELSE IF elapsed > SUSPECT_TIMEOUT /\ ps.status # "suspect"
             THEN [peers |-> marked("suspect"), snap |-> kept("suspect"),
                   i |-> i, to_remove |-> to_remove, pc |-> "probe"]
             ELSE Scan(peers, snap, i + 1, t, to_remove)

Sleeping ==
    [pc |-> "sleep", now |-> 0, snap |-> <<>>, i |-> 0, to_remove |-> <<>>]

\* the health-check task is at an await, so that another task can run
Suspended == hp.pc \in {"sleep", "probe", "close", "connect"}

InitProbe ==
    /\ routing = <<>>
    /\ url_overrides = NoOverrides
    /\ outbound_ws = {}
    /\ started = TRUE
    /\ now = 0
    /\ max_seq_seen = [p \in Peers |-> -1]
    /\ capabilities = {"cli"}
    /\ hp = Sleeping
    /\ hp_removed = {}

IdleProbe == hp = Sleeping /\ hp_removed = {}

\* what the pass holds after it ran from element i to its next await
Resumed(i) ==
    LET r == Scan(routing, hp.snap, i, hp.now, hp.to_remove)
    IN  /\ routing' = r.peers
        /\ hp' = [hp EXCEPT !.snap = r.snap, !.i = r.i,
                            !.to_remove = r.to_remove, !.pc = r.pc]

\* asyncio.sleep(HEALTH_CHECK_INTERVAL) is over: the pass reads the clock
\* and the list of get_all_peers() and runs to its first await
P_Wake ==
    /\ hp.pc = "sleep"
    /\ now < MaxPasses * HEALTH_CHECK_INTERVAL
    /\ now' = now + HEALTH_CHECK_INTERVAL
    /\ LET r == Scan(routing,
                     [k \in 1..Len(routing) |-> LiveLink(routing[k].node_id)],
                     1, now', <<>>)
       IN  /\ routing' = r.peers
           /\ hp' = [pc |-> r.pc, now |-> now', snap |-> r.snap, i |-> r.i,
                     to_remove |-> r.to_remove]
    /\ UNCHANGED <<url_overrides, outbound_ws, started, max_seq_seen,
                   capabilities, hp_removed>>
    /\ UNCHANGED notProbe

\* the http_post of the probe returns None; the loop goes on with the
\* next element
P_ProbeReturns ==
    /\ hp.pc = "probe"
    /\ ~ProbeSucceeds(ObjectOf(routing, hp.snap[hp.i]))
    /\ Resumed(hp.i + 1)
    /\ UNCHANGED <<url_overrides, outbound_ws, started, now, max_seq_seen,
                   capabilities, hp_removed>>
    /\ UNCHANGED notProbe

\* the second loop, one node_id of to_remove: remove_peer, then
\* close_peer, which awaits ws.close() when there is a stream to the peer
P_Remove ==
    /\ hp.pc = "remove"
    /\ hp.to_remove # <<>>
    /\ LET id == Head(hp.to_remove)
       IN  /\ routing' = remove_peer(routing, id)
           /\ outbound_ws' = outbound_ws \ {id}
           /\ hp_removed' =
                 IF id \in KnownIds(routing)
                 THEN hp_removed
                         \cup {[node_id |-> id,
                                last_seen |-> GetPeer(routing, id).last_seen,
                                at |-> now]}
                 ELSE hp_removed
           /\ hp' = [hp EXCEPT !.to_remove = Tail(hp.to_remove),
                               !.pc = IF id \in outbound_ws THEN "close"
                                      ELSE "remove"]
    /\ UNCHANGED <<url_overrides, started, now, max_seq_seen, capabilities>>
    /\ UNCHANGED notProbe

\* ws.close() returns
P_Closed ==
    /\ hp.pc = "close"
    /\ hp' = [hp EXCEPT !.pc = "remove"]
    /\ UNCHANGED <<routingVars, hp_removed>>
    /\ UNCHANGED notProbe

\* after the second loop: _connect_to_neighbors picks its targets and
\* awaits ws_connect
P_Connect ==
    /\ hp.pc = "remove"
    /\ hp.to_remove = <<>>
    /\ ConnectToNeighbors(routing)
    /\ hp' = Sleeping
    /\ UNCHANGED <<routing, url_overrides, started, now, max_seq_seen,
                   capabilities, hp_removed>>
    /\ UNCHANGED notProbe

\* _handle_join while the health-check task is at an await, for a peer
\* the node does not know: what refreshes an entry in SpecProbe is gossip
P_Join(p) ==
    /\ Suspended
    /\ p \notin KnownIds(routing)
    /\ HandleJoin(p)

\* _handle_gossip while the health-check task is at an await: an entry
\* update_peer replaces (a higher heartbeat_seq) is no longer the object
\* the list of the pass holds
P_Gossip(payload) ==
    /\ Suspended
    /\ routing' = handle_gossip(routing, Self, url_overrides, payload, now)
    /\ max_seq_seen' =
          SeqsReceived(max_seq_seen,
                       GossipStates(Self, url_overrides, payload, now))
    /\ LET replaced ==
               {payload[k].node_id : k \in
                   {j \in 1..Len(payload) :
                       /\ payload[j].node_id \in KnownIds(routing)
                       /\ payload[j].heartbeat_seq >
                             GetPeer(routing, payload[j].node_id)
                                .heartbeat_seq}}
       IN  hp' = [hp EXCEPT !.snap =
                    [k \in 1..Len(hp.snap) |->
                        IF hp.snap[k].live /\ hp.snap[k].node_id \in replaced
                        THEN [hp.snap[k] EXCEPT
                                 !.live = FALSE,
                                 !.copy = GetPeer(routing,
                                                  hp.snap[k].node_id)]
                        ELSE hp.snap[k]]]
    /\ UNCHANGED <<url_overrides, outbound_ws, started, now, capabilities,
                   hp_removed>>
    /\ UNCHANGED notProbe

NextProbe ==
    \/ P_Wake
    \/ P_ProbeReturns
    \/ P_Remove
    \/ P_Closed
    \/ P_Connect
    \/ \E p \in Peers : P_Join(p)
    \/ \E g \in GossipPayloads : P_Gossip(g)

\* ------------------------------------------------------------------------
\* Claims about the routing table (SpecTable)
\* ------------------------------------------------------------------------

\* the entries of a table other than the one of node_id id, in order
Others(peers, id) == SelectSeq(peers, LAMBDA ps : ps.node_id # id)

SameInfo(a, b) ==
    /\ a.node_id = b.node_id
    /\ a.capabilities = b.capabilities
    /\ a.http_url = b.http_url
    /\ a.ws_url = b.ws_url

\* What update_peer(s) must do to the table old, giving new and ret.
UpdatePost(old, s, new, ret) ==
    LET id == s.node_id
        known == id \in KnownIds(old)
        higher == known /\ s.heartbeat_seq > GetPeer(old, id).heartbeat_seq
    IN  /\ ret = (~known \/ higher)
        /\ id \in KnownIds(new)
        /\ Others(new, id) = Others(old, id)
        /\ Len(new) = Len(old) + (IF known THEN 0 ELSE 1)
        /\ (~known \/ higher) => GetPeer(new, id) = s
        /\ (known /\ ~higher) =>
              LET e == GetPeer(old, id)
                  f == GetPeer(new, id)
              IN  /\ SameInfo(f, e)
                  /\ f.heartbeat_seq = e.heartbeat_seq
                  /\ f.metadata = e.metadata
                  /\ f.last_seen >= e.last_seen
                  /\ IF s.last_seen > e.last_seen
                     THEN f.last_seen = s.last_seen /\ f.status = "alive"
                     ELSE f.last_seen = e.last_seen /\ f.status = e.status

\* C7: update_peer(ps) inserts ps when its node_id is unknown, replaces the
\* entry when ps.heartbeat_seq is strictly higher, and otherwise only
\* refreshes last_seen and sets status alive when ps.last_seen is strictly
\* later, leaving info, heartbeat_seq and metadata alone and never moving
\* last_seen backwards; it returns true iff the peer was new or the sequence
\* was higher.
C7_UpdatePeer ==
    [][t_last'.op = "update_peer" =>
          UpdatePost(t_peers, t_last'.state, t_peers', t_last'.ret)]_vars

\* A call with a stale or equal sequence refreshed last_seen of an entry
\* whose info and metadata differ from the argument's.
C7_Witness ==
    /\ t_last.op = "update_peer"
    /\ ~t_last.ret
    /\ t_last.changed
    /\ LET e == GetPeer(t_peers, t_last.state.node_id)
       IN  /\ e.http_url # t_last.state.http_url
           /\ e.metadata # t_last.state.metadata
           /\ e.last_seen = t_last.state.last_seen

\* the entries route_method may choose for method m, excluding ex
Suitable(peers, m, ex) ==
    {i \in 1..Len(peers) :
        /\ peers[i].status = "alive"
        /\ peers[i].node_id # ex
        /\ \A c \in METHOD_CAPABILITIES(m) : c \in peers[i].capabilities}

\* C4: route_method(m, exclude) returns none or a peer that is alive, is
\* not the excluded id and has every capability required for m; it returns
\* none exactly when no such peer exists.
C4_RouteMethod ==
    t_last.op = "route_method" =>
        LET s == Suitable(t_peers, t_last.method, t_last.exclude)
        IN  /\ (t_last.route = None) <=> (s = {})
            /\ t_last.route # None =>
                  \E i \in s : t_peers[i].node_id = t_last.route

\* route_method chose a peer while another peer with the capabilities was
\* passed over for not being alive.
C4_Witness ==
    /\ t_last.op = "route_method"
    /\ t_last.route # None
    /\ \E i \in 1..Len(t_peers) :
          /\ t_peers[i].status # "alive"
          /\ t_peers[i].node_id # t_last.exclude
          /\ METHOD_CAPABILITIES(t_last.method) \subseteq
                t_peers[i].capabilities

\* ------------------------------------------------------------------------
\* Claims about the routing state of a node (SpecRouting)
\* ------------------------------------------------------------------------

\* C1: the heartbeat_seq stored for a known node_id is the maximum
\* heartbeat_seq the node has ever received for that node_id, after any
\* sequence of update_peer, remove_peer and re-insertion (so the stored
\* value never decreases).
C1_StoredSeqIsMax ==
    \A i \in 1..Len(routing) :
        routing[i].heartbeat_seq = max_seq_seen[routing[i].node_id]

\* C8: while the node holds a URL override for a peer, the routing entry of
\* that peer has the overridden http_url and ws_url after every routing
\* update; a peer without an override keeps the URLs it advertises.
C8_OverrideKept ==
    \A i \in 1..Len(routing) :
        LET ps == routing[i]
            ovr == url_overrides[ps.node_id]
        IN  IF ovr # None
            THEN ps.http_url = ovr[1] /\ ps.ws_url = ovr[2]
            ELSE ps.http_url = "adv" /\ ps.ws_url = "adv"

\* ------------------------------------------------------------------------
\* Claims about handle_envelope (SpecDispatch)
\* ------------------------------------------------------------------------

\* C2: however many copies of the envelope with msg_id Tracked arrive, over
\* whatever channel and with whatever other envelopes in between, its
\* handler runs exactly once.
C2_ExactlyOnce == dispatches <= 1

\* C2 (amended): the handler of the envelope Tracked runs once for each
\* time its msg_id enters seen_msgs: copies are dropped as long as the
\* msg_id is remembered, and after the msg_id was evicted with the oldest
\* half of the ids the next copy is dispatched again.
C2_OncePerRemembering ==
    dispatches = evictions + (IF Tracked \in Range(seen_msgs) THEN 1 ELSE 0)

\* A copy of Tracked arrived after other envelopes had been processed, while
\* its msg_id was still remembered, and was dropped.
C2_Witness ==
    /\ last.msg_id = Tracked
    /\ ~last.handled
    /\ dispatches = 1
    /\ evictions = 0
    /\ Len(seen_msgs) = SEEN_MSG_MAX

\* ------------------------------------------------------------------------
\* Claims about requests and the memory client (SpecRpc)
\* ------------------------------------------------------------------------

\* C9: a request envelope served by _handle_request is followed by a
\* flooded event exactly when its method is observe, claim or
\* flag_contradiction and the memory call succeeded.
C9_MutatingRequestFloods ==
    (last.msg_type = "request" /\ last.handled) =>
        ((last.flood_id # 0) <=>
            (last.method \in {"observe", "claim", "flag_contradiction"}
             /\ last.outcome = "ok"))

\* the request envelopes among the messages a step sent
RequestsSent == {x \in outbox : x.envelope.msg_type = "request"}

Linked(n, m) == m \in net_outbound_ws[n] \/ n \in net_outbound_ws[m]

\* the nodes at most k stream hops from a node of S
RECURSIVE WithinHops(_, _)
WithinHops(S, k) ==
    IF k = 0 THEN S
    ELSE WithinHops(S \cup {m \in Nodes : \E n \in S : Linked(n, m)}, k - 1)

\* no copy of the event is in flight any more
Settled(id) == \A m \in net_wire : m.envelope.msg_id # id

\* C3: once the flood of an event emitted after a successful mutating call
\* has settled, every running node at most ttl (3) stream hops from the
\* handling node has received the event.
C3_EventReachesNeighbourhood ==
    \A ev \in net_emitted :
        Settled(ev.id) =>
            \A n \in (WithinHops({ev.origin}, EVENT_TTL) \cap net_running)
                        \ {ev.origin} :
                ev.id \in net_heard[n]

\* C6: when n0 has bootstrapped to p1 and an observe issued on n0 was
\* executed on p1 via RPC, the observe event p1 flooded has reached the
\* listeners of n0 once nothing of it is in flight.
C6_ObserveEventDelivered ==
    \A ev \in net_emitted :
        (ev.method = "observe" /\ ev.caller = "n0" /\ ev.origin = "p1"
         /\ Settled(ev.id))
            => ev.id \in net_heard["n0"]

\* C5: a node whose health check has run after the crashed peer had been
\* silent for more than DEAD_TIMEOUT does not have the crashed peer in its
\* routing table, then or later.
C5_CrashedPeerRemoved ==
    \A n \in net_checked : CrashNode \notin KnownIds(net_routing[n])

\* ------------------------------------------------------------------------
\* Claims about the schema methods of the memory API (SpecRpc)
\* ------------------------------------------------------------------------

SchemaMethods == {"get_schema", "update_schema"}

\* C11: get_schema and update_schema require the store capability: a node
\* without store never runs them locally (its memory client either finds no
\* capable peer or posts the request to a peer with store), and a request
\* for them that reaches a node without store is answered with the
\* capability-mismatch error.
C11_SchemaMethodsNeedStore ==
    (last.handled /\ last.method \in SchemaMethods
     /\ "store" \notin capabilities) =>
        /\ last.msg_type = "call" =>
              /\ last.outcome \in RemoteOutcomes \cup {"no_capable_peer"}
              /\ \A x \in RequestsSent : "store" \in PeerCaps(x.to)
        /\ last.msg_type = "request" =>
              last.outcome = "lacks_capabilities"

\* C18: an update_schema call served by a store node (for a remote caller
\* or for its own memory client) is followed by a schema_updated event that
\* the node floods to its neighbours.
C18_SchemaUpdateFloods ==
    (last.handled /\ last.method = "update_schema" /\ last.outcome = "ok"
     /\ last.msg_type \in {"request", "call"}
     /\ "store" \in capabilities) =>
        /\ last.flood_id # 0
        /\ \A x \in outbox :
              /\ x.envelope.msg_type = "event"
              /\ x.envelope.event_type = "schema_updated"

\* ------------------------------------------------------------------------
\* Claims about the validator (SpecValidator)
\* ------------------------------------------------------------------------

\* the flag_contradiction calls made so far on the statements a and b
CallsOn(a, b) ==
    {k \in 1..Len(v_flags) :
        {v_flags[k].stmt_id_1, v_flags[k].stmt_id_2} = {a.id, b.id}}

\* the pairs of statements in the store, older one first
StatementPairs ==
    {<<v_statements[i], v_statements[j]>> :
        i \in 1..Len(v_statements), j \in 1..Len(v_statements)} \cap
    {pr \in Range(v_statements) \X Range(v_statements) : pr[1].id < pr[2].id}

\* C13: two statements with the same subject and the same predicate but
\* different objects are never flagged when the loaded schema declares the
\* predicate (or the canonical predicate of its alias) multi-valued, and
\* are flagged by a process() that ran to its end when no schema is loaded.
C13_MultiValuedNeverFlagged ==
    v_last.op = "process" =>
        \A pr \in StatementPairs :
            (/\ pr[1].subject_name = pr[2].subject_name
             /\ pr[1].predicate = pr[2].predicate
             /\ pr[1].object_name # pr[2].object_name) =>
                /\ (v_schema.loaded
                    /\ is_multi_valued(v_schema, pr[1].predicate)) =>
                        CallsOn(pr[1], pr[2]) = {}
                /\ (~v_schema.loaded /\ v_last.completed) =>
                        CallsOn(pr[1], pr[2]) # {}

\* the pairs the validator finds in the statements it reads now
FoundNow ==
    ProcessPairs(v_schema, get_recent_statements(v_statements, RECENT_LIMIT))

\* C14 (as stated): over any sequence of process() calls of any validator,
\* each unordered pair of statement ids is passed to flag_contradiction at
\* most once.
C14_AtMostOncePerPair ==
    \A pr \in StatementPairs : Cardinality(CallsOn(pr[1], pr[2])) <= 1

\* C14 (amended): for a validator that has an idempotency state, a pair
\* whose flag_contradiction call returned is never passed again, and a
\* process() that follows a process() which ran to its end makes no call.
C14_CheckedPairsSkipped ==
    /\ [](v_has_state =>
            \A pr \in StatementPairs :
                \A k, l \in CallsOn(pr[1], pr[2]) :
                    k < l => ~v_flags[k].returned)
    /\ [][(/\ v_has_state
           /\ v_last.op = "process" /\ v_last.completed
           /\ v_last'.op = "process") => v_last'.calls = <<>>]_vars

\* a process() of a validator with state has just skipped a pair that an
\* earlier process() flagged
C14_Witness ==
    /\ v_has_state
    /\ v_ticks = 2
    /\ v_last.op = "process" /\ v_last.calls = <<>>
    /\ \E k \in 1..Len(FoundNow) :
          /\ PairKey(FoundNow[k].stmt_id_1, FoundNow[k].stmt_id_2)
                \in v_checked
          /\ \E c \in 1..Len(v_flags) :
                /\ v_flags[c].returned
                /\ v_flags[c].stmt_id_1 = FoundNow[k].stmt_id_1
                /\ v_flags[c].stmt_id_2 = FoundNow[k].stmt_id_2

\* the names of the groups of the schema that hold both predicates
GroupsOfBoth(schema, p, q) ==
    {schema.exclusivity_groups[g].name :
        g \in {h \in 1..Len(schema.exclusivity_groups) :
                  {normalize_predicate(schema, p),
                   normalize_predicate(schema, q)}
                     \subseteq schema.exclusivity_groups[h].predicates}}

\* C15: when the store holds exactly two statements, about the same subject
\* and with two different predicates of one exclusivity group of the loaded
\* schema, a process() call whose calls return makes exactly one
\* flag_contradiction call, on that pair, with a reason naming the group.
C15_OneExclusivityFlag ==
    (/\ v_last.op = "process" /\ v_last.completed
     /\ v_ticks = 1
     /\ v_schema.loaded
     /\ Len(v_statements) = 2
     /\ v_statements[1].subject_name = v_statements[2].subject_name
     /\ normalize_predicate(v_schema, v_statements[1].predicate)
           # normalize_predicate(v_schema, v_statements[2].predicate)
     /\ GroupsOfBoth(v_schema, v_statements[1].predicate,
                     v_statements[2].predicate) # {}) =>
        /\ Len(v_last.calls) = 1
        /\ {v_last.calls[1].stmt_id_1, v_last.calls[1].stmt_id_2} = {1, 2}
        /\ v_last.calls[1].reason.kind = "exclusivity"
        /\ v_last.calls[1].reason.name
              \in GroupsOfBoth(v_schema, v_statements[1].predicate,
                               v_statements[2].predicate)

\* C16: every pair a process() call passes to flag_contradiction consists
\* of two current statements: neither has an incoming SUPERSEDES edge.
C16_NoSupersededFlagged ==
    v_last.op = "process" =>
        \A k \in 1..Len(v_last.calls) :
            /\ v_last.calls[k].stmt_id_1 \notin v_superseded
            /\ v_last.calls[k].stmt_id_2 \notin v_superseded

\* ------------------------------------------------------------------------
\* Claims about the validator and the events of the overlay (SpecReload)
\* ------------------------------------------------------------------------

\* C17: schema_updated is among the event types the validator declares, and
\* once a schema_updated event has reached it the agent is woken and, when
\* the payload carries a schema, holds the schema rebuilt from the payload.
C17_SchemaHotReload ==
    (v_last.op = "event" /\ v_last.event_type = "schema_updated") =>
        /\ "schema_updated" \in event_types
        /\ v_event_received
        /\ v_last.schema.loaded => v_schema = v_last.schema

\* ------------------------------------------------------------------------
\* Claims about the schema store (SpecSchema)
\* ------------------------------------------------------------------------

\* the canonical names of the predicates the last changes mention, and the
\* props given for one of them
TouchedPredicates ==
    {Canonical(n) : n \in DOMAIN ChangedPredicates(s_last.changes)}

TouchedProps(c) ==
    LET changed == ChangedPredicates(s_last.changes)
    IN  changed[CHOOSE n \in DOMAIN changed : Canonical(n) = c]

\* the names of the groups the last changes mention
TouchedGroups ==
    {ChangedGroups(s_last.changes)[g].name :
        g \in 1..Len(ChangedGroups(s_last.changes))}

\* C19: an update increases schema_version by exactly 1 and leaves as they
\* were every predicate, every field of a touched predicate, every
\* exclusivity group and the defaults that the changes do not mention.
C19_UpdatePreservesUnmentioned ==
    s_last.op = "update" =>
        LET before == s_last.before
        IN  /\ s_data.schema_version = before.schema_version + 1
            /\ s_data.schema_version > before.schema_version
            /\ \A c \in DOMAIN before.predicates :
                  /\ c \in DOMAIN s_data.predicates
                  /\ c \notin TouchedPredicates =>
                        s_data.predicates[c] = before.predicates[c]
                  /\ c \in TouchedPredicates =>
                        \A f \in DOMAIN before.predicates[c] :
                            f \notin DOMAIN TouchedProps(c) =>
                                /\ f \in DOMAIN s_data.predicates[c]
                                /\ s_data.predicates[c][f] =
                                      before.predicates[c][f]
            /\ \A g \in 1..Len(before.exclusivity_groups) :
                  before.exclusivity_groups[g].name \notin TouchedGroups =>
                      /\ g <= Len(s_data.exclusivity_groups)
                      /\ s_data.exclusivity_groups[g] =
                            before.exclusivity_groups[g]
            /\ "defaults" \notin DOMAIN s_last.changes =>
                  s_data.defaults = before.defaults

\* an update has changed one field of a predicate that had others, next to
\* predicates, a group and defaults it did not mention
C19_Witness ==
    /\ s_last.op = "update"
    /\ s_data.schema_version = 2
    /\ "defaults" \notin DOMAIN s_last.changes
    /\ Len(s_last.before.exclusivity_groups) > 0
    /\ TouchedGroups = {}
    /\ \E c \in TouchedPredicates \cap DOMAIN s_last.before.predicates :
          /\ DOMAIN s_last.before.predicates[c] \ DOMAIN TouchedProps(c) # {}
          /\ s_data.predicates[c] # s_last.before.predicates[c]
    /\ DOMAIN s_last.before.predicates \ TouchedPredicates # {}

\* C20: at every instant, a crash during update or seeding included, the
\* schema file is either not there yet or a complete document: the one
\* written last or the one being written, never an emptied or partly
\* written file.
C20_FileAlwaysComplete ==
    /\ s_file.state \in {"absent", "complete"}
    /\ s_file.state = "absent" => s_persisted = <<>>
    /\ s_file.state = "complete" =>
          /\ s_persisted # <<>>
          /\ s_file.data \in
                {s_persisted[k] :
                    k \in {Len(s_persisted) - 1, Len(s_persisted)} \ {0}}

\* C21: load() of a store whose file is absent or does not parse ends in
\* the bootstrap state (schema_version 0, updated_by bootstrap, every
\* predicate and group of the bootstrap document tagged origin=bootstrap)
\* and writes it to the file; load() of a file that parses takes the
\* document of the file as it is and leaves the file alone.
C21_LoadFallsBackToBootstrap ==
    [][(~s_loaded /\ s_loaded') =>
          IF s_file.state \in {"absent", "partial"}
          THEN /\ s_data'.schema_version = 0
               /\ s_data'.updated_by = "bootstrap"
               /\ DOMAIN s_data'.predicates = DOMAIN BootstrapData.predicates
               /\ \A c \in DOMAIN s_data'.predicates :
                     /\ "origin" \in DOMAIN s_data'.predicates[c]
                     /\ s_data'.predicates[c].origin = "bootstrap"
               /\ Len(s_data'.exclusivity_groups) =
                     Len(BootstrapData.exclusivity_groups)
               /\ \A g \in 1..Len(s_data'.exclusivity_groups) :
                     /\ "origin" \in DOMAIN s_data'.exclusivity_groups[g]
                     /\ s_data'.exclusivity_groups[g].origin = "bootstrap"
               /\ s_file' = File("complete", s_data')
          ELSE /\ s_data'.schema_version = s_file.data.schema_version
               /\ s_data'.predicates = s_file.data.predicates
               /\ s_data' = s_file.data
               /\ s_file' = s_file]_vars

\* a load has found the file a crashed write left partly written, and has
\* seeded the store and rewritten the file
C21_Witness ==
    /\ s_last.op = "load"
    /\ s_loaded
    /\ Len(s_persisted) >= 2
    /\ s_data = s_persisted[Len(s_persisted)]
    /\ s_data.updated_by = "bootstrap"
    /\ s_file = File("complete", s_data)

\* ------------------------------------------------------------------------
\* Claims about the inference agent and its loop (SpecWorker)
\* ------------------------------------------------------------------------

\* the attempts of the startup loop of run(): range(1, 13)
STARTUP_ATTEMPTS == 12

\* C22: when process() raises on the startup call, run() calls it again, up
\* to 12 attempts in all: the agent is in its steady-state loop only after
\* a startup attempt in which process() did not raise, and run() returns
\* without one only after 12 attempts.
C22_StartupRetried ==
    /\ a_attempts <= STARTUP_ATTEMPTS
    /\ (a_pc = "wait" /\ a_running) => ~a_startup_raised
    /\ (a_pc = "returned" /\ a_startup_raised) =>
          a_attempts = STARTUP_ATTEMPTS

\* run() has been told to stop
Stopped == a_pc # "init" /\ ~a_running

C24_MarkedOnlyWhenClaimed ==
    \A obs_id \in a_processed :
        a_obs[obs_id] = "fact" => obs_id \in a_claimed

\* C25: over any sequence of process() calls of an inference agent that has
\* an idempotency state, memory.infer is called at most once for an
\* observation: one that is marked processed is skipped.
C25_InferAtMostOnce ==
    \A obs_id \in DOMAIN a_obs :
        /\ a_infer_calls[obs_id] <= 1
        /\ a_infer_calls[obs_id] = 1 =>
              (obs_id \in a_processed /\ a_obs[obs_id] \in {"quiet", "fact"})

\* a later process() call has fetched an observation that memory.infer was
\* called for in an earlier one, next to one it has not seen yet
C25_Witness ==
    /\ a_pc = "process"
    /\ Len(a_fetched) = 2
    /\ a_infer_calls = <<1, 0>>
    /\ 1 \in a_processed
    /\ a_obs[2] = "fact"

\* C26: in steady state a tick in which process() or memory.claim raised
\* adds one to the error counter and leaves the agent in its loop, where a
\* later tick can be taken; run() returns only after stop().
C26_FailureKeepsLoop ==
    /\ [][(a_last' # a_last /\ a_last'.phase = "steady" /\ a_last'.failed) =>
             /\ a_error_count' = a_error_count + 1
             /\ a_pc' = "wait"
             /\ a_running' = a_running]_vars
    /\ []((a_pc = "wait" /\ a_running) =>
             ENABLED A_SteadyTick("timeout", TRUE))
    /\ [](a_pc = "returned" => ~a_running)

\* a second tick of the steady state has failed, and the agent goes on
C26_Witness ==
    /\ a_last.phase = "steady"
    /\ a_last.failed
    /\ a_last.errors = 1
    /\ a_error_count = 2
    /\ a_claimed = {}
    /\ a_processed # {}
    /\ a_pc = "wait"
    /\ a_running

\* ------------------------------------------------------------------------
\* Claims about the graph of the store (SpecStore)
\* ------------------------------------------------------------------------

\* s has an incoming SUPERSEDES relationship
SupersedesTarget(s) == \E e \in g_edges : e[2] = "SUPERSEDES" /\ e[3] = s

\* C27: after any sequence of statement creations and SUPERSEDES
\* relationship creations, no statement that find_statements_about returns
\* and neither statement of a pair that find_unresolved_contradictions
\* returns is the target of a SUPERSEDES relationship.
C27_CurrentExcludesSuperseded ==
    /\ \A c \in g_concepts : \A s \in find_statements_about(c) :
          ~SupersedesTarget(s)
    /\ \A pair \in find_unresolved_contradictions :
          ~SupersedesTarget(pair[1]) /\ ~SupersedesTarget(pair[2])

\* of two statements about a concept one supersedes the other, and only
\* the newer one is returned
C27_Witness ==
    \E s1 \in g_statements, s2 \in g_statements :
        /\ s1 # s2
        /\ {<<s1, "ABOUT_SUBJECT", "alice">>, <<s2, "ABOUT_SUBJECT", "alice">>,
            <<s2, "SUPERSEDES", s1>>} \subseteq g_edges
        /\ find_statements_about("alice") = {s2}

\* C28: MemoryService.observe creates one observation and no statement:
\* whatever the text and what is extracted from it, the statement (claim)
\* nodes of the store are the same before and after the call.
C28_ObserveCreatesNoStatement ==
    [][g_observations' # g_observations =>
          /\ Cardinality(g_observations') = Cardinality(g_observations) + 1
          /\ g_statements' = g_statements]_vars

\* ------------------------------------------------------------------------
\* Claims about envelopes that cannot be read (SpecInbound)
\* ------------------------------------------------------------------------

\* C29: whatever the msg_type and the payload of an inbound envelope,
\* handle_envelope returns normally: no exception leaves it, a request is
\* answered by a response whose error is set when it failed, and an
\* envelope of a type without a handler is dropped.
C29_HandleEnvelopeReturns ==
    /\ last.outcome # "exception"
    /\ last.msg_type = "request" =>
          /\ reply.msg_type = "response"
          /\ reply.error = (last.outcome # "ok")
    /\ (last.handled = FALSE) => reply = NoReply

\* ------------------------------------------------------------------------
\* Claims about the stream tables (SpecStreams)
\* ------------------------------------------------------------------------

\* C30: ws_send, broadcast_ws, send_to_inbound and broadcast_inbound never
\* raise to their caller, whatever the other tasks connect, close or drop
\* in the same table while a send is suspended, and when the call has
\* ended no key whose send failed is in the table.
C30_SendsNeverRaise ==
    /\ ~x_last.raised
    /\ x_last.failed \cap x_last.after = {}

\* ------------------------------------------------------------------------
\* Claims about _handle_event (SpecEvent)
\* ------------------------------------------------------------------------

\* the envelope the last step handled, as it arrived
Arrived ==
    CHOOSE e \in EventEnvelopes \cup {NoEnvelope} :
        e.msg_id = last.msg_id /\ e.ttl = last.ttl

\* the copies in the outbox: what they carry, and the streams they went on
CopiesCarry(e) == \A x \in outbox : x.envelope = e

CopiesOnEveryStream ==
    /\ {x.to : x \in {y \in outbox : y.via = "outbound"}} = outbound_ws
    /\ {x.to : x \in {y \in outbox : y.via = "inbound"}} =
          Range(inbound_ws)

\* C31: a first-seen event is handed to every registered listener, one
\* that raises included and not ending the round; if and only if its ttl
\* exceeds 1, a copy with the same msg_id, sender_id and payload and ttl
\* one less goes out on every stream of the outbound and of the inbound
\* table; an event with ttl <= 1 is forwarded to nobody.
C31_EventNotifiedAndForwarded ==
    (last.msg_type = "event" /\ last.handled) =>
        /\ ev_last.called = [i \in 1..Len(ev_last.listeners) |-> i]
        /\ IF last.ttl > 1
               THEN /\ outbox # {} <=> (outbound_ws # {} \/ inbound_ws # << >>)
                    /\ CopiesOnEveryStream
                    /\ CopiesCarry([Arrived EXCEPT !.ttl = last.ttl - 1])
               ELSE outbox = {}

\* an event with ttl 3 has been handled on a node with a raising listener
\* ahead of another one, and copies went out on both kinds of stream
C31_Witness ==
    /\ last.msg_type = "event" /\ last.handled /\ last.ttl = 3
    /\ ev_last.listeners = <<"raises", "returns">>
    /\ ev_last.called = <<1, 2>>
    /\ \E x, y \in outbox : x.via = "outbound" /\ y.via = "inbound"

\* ------------------------------------------------------------------------
\* Claims about the flood of an event (SpecCycle)
\* ------------------------------------------------------------------------

\* the copies of events in flight
EventsInFlight == {m \in net_wire : m.envelope.msg_type = "event"}

\* every copy in flight carries a ttl from 1 to the ttl of the original,
\* so none has travelled more than ttl hops when it is handled
TtlInBudget ==
    \A m \in EventsInFlight :
        1 <= m.envelope.ttl /\ m.envelope.ttl <= EVENT_TTL

\* a node that forwards a msg_id once sends copies of one ttl only
ForwardsOnce ==
    \A m1, m2 \in EventsInFlight :
        (m1.src = m2.src /\ m1.envelope.msg_id = m2.envelope.msg_id)
            => m1.envelope.ttl = m2.envelope.ttl

\* C32 as stated: for an event originated with ttl 3 every copy in flight
\* has 1 <= ttl <= 3, each node forwards a given msg_id at most once, and
\* eventually no copy of the event is in flight.
C32_FloodWithinTtl ==
    /\ []TtlInBudget
    /\ []ForwardsOnce
    /\ (EventsInFlight # {}) ~> (EventsInFlight = {})

\* the envelope a step takes off the wire
Taken == net_wire \ net_wire'

\* the step hands an event to _handle_event of node n
Handles(n) ==
    \E m \in Taken :
        /\ m.to = n
        /\ m.envelope.msg_type = "event"
        /\ net_seen_msgs'[n] # net_seen_msgs[n]

\* C32 amended: for an event originated with ttl 3 every copy in flight
\* has 1 <= ttl <= 3; a node forwards a copy only when its msg_id is not
\* in its seen_msgs, and a copy whose msg_id it remembers puts nothing on
\* the wire; the copies a node forwards carry a ttl below that of the copy
\* it handled; eventually no copy of the event is in flight.
C32_FloodWhileRemembered ==
    /\ []TtlInBudget
    /\ [][\A m \in Taken :
             m.envelope.msg_type = "event" =>
                 /\ m.envelope.msg_id \in Range(net_seen_msgs[m.to])
                       => net_wire' \subseteq net_wire
                 /\ \A x \in net_wire' \ net_wire :
                       /\ x.src = m.to
                       /\ x.envelope.msg_id = m.envelope.msg_id
                       /\ x.envelope.sender_id = m.envelope.sender_id
                       /\ x.envelope.ttl = m.envelope.ttl - 1]_vars
    /\ (EventsInFlight # {}) ~> (EventsInFlight = {})

\* in the cycle a copy of the event has reached a node that remembers its
\* msg_id while the node's own forwarded copies are still in flight
C32_Witness ==
    \E m, x \in EventsInFlight :
        /\ m.envelope.msg_id \in Range(net_seen_msgs[m.to])
        /\ x.src = m.to
        /\ x.envelope.msg_id = m.envelope.msg_id
        /\ x.envelope.ttl = EVENT_TTL - 1

\* ------------------------------------------------------------------------
\* Claims about seen_msgs (SpecSeen)
\* ------------------------------------------------------------------------

\* C33: seen_msgs is a bounded FIFO set: in every reachable state, after
\* any mix of inbound envelopes and locally originated events, it holds at
\* most SEEN_MSG_MAX ids, no id twice, oldest first.
C33_SeenBounded ==
    /\ Len(seen_msgs) <= SEEN_MSG_MAX
    /\ \A i, j \in 1..Len(seen_msgs) : seen_msgs[i] = seen_msgs[j] => i = j

\* ------------------------------------------------------------------------
\* Claims about the neighbours of a node (SpecNeighbors)
\* ------------------------------------------------------------------------

\* C34: when a health-check pass has pruned a dead neighbour and the node
\* is left with fewer than MAX_NEIGHBORS outbound streams while an alive
\* peer it knows has no outbound stream, the pass calls ws_connect for
\* such a peer, whatever the rank of the peers already connected; and the
\* node never holds more than MAX_NEIGHBORS outbound streams.
C34_ReplacesPrunedNeighbour ==
    /\ Cardinality(outbound_ws) <= MAX_NEIGHBORS
    /\ (/\ h_last.pruned # {}
        /\ Cardinality(h_last.kept) < MAX_NEIGHBORS
        /\ h_last.candidates # {})
          => h_last.attempted \cap h_last.candidates # {}

\* ------------------------------------------------------------------------
\* Claims about the age of the entries of the routing table (SpecRouting)
\* ------------------------------------------------------------------------

\* C35: in every state of a node, every entry of its routing table with
\* status alive has last_seen within DEAD_TIMEOUT of the current time.
C35_AliveIsRecent ==
    \A i \in 1..Len(routing) :
        routing[i].status = "alive" =>
            now - routing[i].last_seen <= DEAD_TIMEOUT

\* ------------------------------------------------------------------------
\* Claims about the inbound-stream table (SpecFlood)
\* ------------------------------------------------------------------------

\* C36: every key of a node's inbound-stream table is the node_id of the
\* neighbour at the other end of the stream filed under it, also after
\* that neighbour forwarded events other nodes originated, and no stream
\* is filed under two keys.
C36_InboundKeyedByEndpoint ==
    \A n \in Nodes :
        /\ \A k \in DOMAIN net_inbound_ws[n] : net_inbound_ws[n][k] = k
        /\ \A j, k \in DOMAIN net_inbound_ws[n] :
              net_inbound_ws[n][j] = net_inbound_ws[n][k] => j = k

\* ------------------------------------------------------------------------
\* Claims about leave (SpecDispatch)
\* ------------------------------------------------------------------------

\* the envelope the last step handled, when that step handled a leave
LeaveHandled(e) ==
    /\ e.msg_type = "leave"
    /\ last'.msg_type = "leave"
    /\ last'.msg_id = e.msg_id
    /\ last'.handled

\* C37: a step that handles a leave envelope of sender S leaves S neither
\* in the routing table nor among the outbound streams and touches no
\* other entry of either; when S was in neither, both are unchanged.
C37_LeaveRemovesSender ==
    [][\A e \in DispatchEnvelopes :
          LeaveHandled(e) =>
              /\ e.sender_id \notin KnownIds(routing')
              /\ e.sender_id \notin outbound_ws'
              /\ routing' =
                    SelectSeq(routing, LAMBDA ps : ps.node_id # e.sender_id)
              /\ outbound_ws' = outbound_ws \ {e.sender_id}
              /\ (e.sender_id \notin KnownIds(routing) \cup outbound_ws)
                    => /\ routing' = routing
                       /\ outbound_ws' = outbound_ws]_vars

\* p1 joined, p2 gossiped, then the leave of p1 was handled: p2 alone is
\* left in the table
C37_Witness ==
    /\ last.msg_type = "leave"
    /\ last.handled
    /\ Seen(seen_msgs, 3)
    /\ KnownIds(routing) = {"p2"}
    /\ outbound_ws = {}

\* ------------------------------------------------------------------------
\* Claims about a node's own entry (SpecPair)
\* ------------------------------------------------------------------------

\* C38: the routing table of a node never holds an entry for the node
\* itself, whatever welcomes, joins and gossip envelopes the nodes have
\* exchanged.
C38_SelfNeverInOwnTable ==
    \A n \in Nodes : n \notin KnownIds(net_routing[n])

\* n0 joined through p1, whose table holds n0 since, and has handled a
\* gossip envelope of p1, which carries that table
C38_Witness ==
    /\ "n0" \in net_running
    /\ "n0" \in KnownIds(net_routing["p1"])
    /\ net_seen_msgs["n0"] # <<>>
    /\ net_heard["n0"] = {}
    /\ "p1" \in KnownIds(net_routing["n0"])

\* ------------------------------------------------------------------------
\* Claims about statements that agree (SpecValidator)
\* ------------------------------------------------------------------------

\* C39: two statements with the same subject, the same predicate and the
\* same object_name are never passed to flag_contradiction, whether or not
\* the predicate is a member of an exclusivity group.
C39_AgreeingNeverFlagged ==
    \A pr \in StatementPairs :
        (/\ pr[1].subject_name = pr[2].subject_name
         /\ pr[1].predicate = pr[2].predicate
         /\ pr[1].object_name = pr[2].object_name) =>
            CallsOn(pr[1], pr[2]) = {}

\* ------------------------------------------------------------------------
\* Claims about a health-check pass and the gossip handled during it
\* (SpecProbe)
\* ------------------------------------------------------------------------

\* C40: the health check removes a peer only when the peer's last_seen is
\* older than DEAD_TIMEOUT at the moment of the removal; a peer whose
\* entry gossip refreshed or replaced while the pass was suspended in the
\* probe of another peer is not removed in that pass.
C40_RemovedOnlyWhenStale ==
    \A r \in hp_removed : r.at - r.last_seen > DEAD_TIMEOUT

\* ------------------------------------------------------------------------
\* Claims about gossip on one clock (SpecGossip)
\* ------------------------------------------------------------------------

\* C12: in a connected overlay in which no node fails, once every routing
\* table has held every other node, no table loses a node: the tables stay
\* complete.
C12_ConvergedStaysConverged ==
    net_converged => Converged(net_routing)

\* ------------------------------------------------------------------------
\* Specifications
\* ------------------------------------------------------------------------

IdleTimed == net_done = 0 /\ net_converged = FALSE

IdleLate ==
    IdleWorker /\ IdleStore /\ IdleStreams /\ IdleListeners /\ IdleNeighbors
       /\ IdleProbe

IdleAgents == IdleValidator /\ IdleSchema /\ IdleLate

IdleEarly ==
    IdleTable /\ IdleRouting /\ IdleDispatch /\ IdleNet /\ IdleTimed
       /\ IdleValidator /\ IdleSchema

StartTable ==
    InitTable /\ IdleRouting /\ IdleDispatch /\ IdleNet /\ IdleTimed
       /\ IdleAgents

SpecTable == StartTable /\ [][NextTable]_vars

StartRouting ==
    InitRouting /\ IdleTable /\ IdleDispatch /\ IdleNet /\ IdleTimed
       /\ IdleAgents

SpecRouting == StartRouting /\ [][NextRouting]_vars

StartDispatch ==
    InitDispatch /\ IdleTable /\ IdleNet /\ IdleTimed /\ IdleAgents

SpecDispatch == StartDispatch /\ [][NextDispatch]_vars

StartRpc == InitRpc /\ IdleTable /\ IdleNet /\ IdleTimed /\ IdleAgents

SpecRpc == StartRpc /\ [][NextRpc]_vars

StartFlood ==
    InitFlood /\ IdleTable /\ IdleRouting /\ IdleDispatch /\ IdleTimed
       /\ IdleAgents

SpecFlood == StartFlood /\ [][NextFlood]_vars

StartPair ==
    InitPair /\ IdleTable /\ IdleRouting /\ IdleDispatch /\ IdleTimed
       /\ IdleAgents

SpecPair == StartPair /\ [][NextPair]_vars

StartHealth ==
    InitHealth /\ IdleTable /\ IdleRouting /\ IdleDispatch /\ IdleTimed
       /\ IdleAgents

SpecHealth == StartHealth /\ [][NextHealth]_vars

StartValidator ==
    InitValidator /\ IdleTable /\ IdleRouting /\ IdleDispatch /\ IdleNet
       /\ IdleTimed /\ IdleSchema /\ IdleLate

SpecValidator == StartValidator /\ [][NextValidator]_vars

StartReload ==
    InitReload /\ IdleTable /\ IdleRouting /\ IdleDispatch /\ IdleNet
       /\ IdleTimed /\ IdleSchema /\ IdleLate

SpecReload == StartReload /\ [][NextReload]_vars

StartSchema ==
    InitSchema /\ IdleTable /\ IdleRouting /\ IdleDispatch /\ IdleNet
       /\ IdleTimed /\ IdleValidator /\ IdleLate

SpecSchema == StartSchema /\ [][NextSchema]_vars

StartGossip ==
    InitGossip /\ IdleTable /\ IdleRouting /\ IdleDispatch /\ IdleAgents

SpecGossip == StartGossip /\ [][NextGossip]_vars


StartWorker ==
    InitWorker /\ IdleEarly /\ IdleStore /\ IdleStreams /\ IdleListeners
       /\ IdleNeighbors /\ IdleProbe

SpecWorker == StartWorker /\ [][NextWorker]_vars

\* the agent's task is scheduled whenever it can run: run() starts, its
\* ticks end, and a wait whose flag is set returns; nothing makes
\* poll_interval pass
SpecWorkerLive ==
    /\ StartWorker
    /\ [][NextWorker]_vars
    /\ WF_vars(A_Run)
    /\ WF_vars(\E fetched_ok \in BOOLEAN : A_StartupTick(fetched_ok))
    /\ WF_vars(\E fetched_ok \in BOOLEAN : A_SteadyTick("event", fetched_ok))
    /\ WF_vars(\E raised \in SUBSET (1..MaxObs), ok_left \in 0..MaxObs :
                  A_Process(raised, ok_left))

StartStore ==
    InitStore /\ IdleEarly /\ IdleWorker /\ IdleStreams /\ IdleListeners
       /\ IdleNeighbors /\ IdleProbe

SpecStore == StartStore /\ [][NextStore]_vars

StartStreams ==
    InitStreams /\ IdleEarly /\ IdleWorker /\ IdleStore /\ IdleListeners
       /\ IdleNeighbors /\ IdleProbe

SpecStreams == StartStreams /\ [][NextStreams]_vars

StartEvent ==
    InitEvent /\ IdleTable /\ IdleNet /\ IdleTimed /\ IdleValidator
       /\ IdleSchema /\ IdleWorker /\ IdleStore /\ IdleStreams
       /\ IdleNeighbors /\ IdleProbe

SpecEvent == StartEvent /\ [][NextEvent]_vars

StartCycle ==
    InitCycle /\ IdleTable /\ IdleRouting /\ IdleDispatch /\ IdleTimed
       /\ IdleAgents

\* every node reads the envelopes that reach it: the readers of its
\* streams are scheduled whenever an envelope waits
SpecCycle ==
    /\ StartCycle
    /\ [][NextCycle]_vars
    /\ WF_vars(\E m \in net_wire : NetRcvEvent(m))
    /\ WF_vars(\E m \in net_wire : NetDropDuplicate(m))

StartSeen == InitSeen /\ IdleTable /\ IdleNet /\ IdleTimed /\ IdleAgents

SpecSeen == StartSeen /\ [][NextSeen]_vars

StartNeighbors ==
    InitNeighbors /\ IdleTable /\ IdleDispatch /\ IdleNet /\ IdleTimed
       /\ IdleValidator /\ IdleSchema /\ IdleWorker /\ IdleStore
       /\ IdleStreams /\ IdleListeners /\ IdleProbe

StartProbe ==
    InitProbe /\ IdleTable /\ IdleDispatch /\ IdleNet /\ IdleTimed
       /\ IdleValidator /\ IdleSchema /\ IdleWorker /\ IdleStore
       /\ IdleStreams /\ IdleListeners /\ IdleNeighbors

SpecProbe == StartProbe /\ [][NextProbe]_vars

SpecNeighbors == StartNeighbors /\ [][NextNeighbors]_vars

StartInbound ==
    InitInbound /\ IdleTable /\ IdleNet /\ IdleTimed /\ IdleAgents

SpecInbound == StartInbound /\ [][NextInbound]_vars

====
